---- MODULE Spec2Model ----
(***************************************************************************)
(* The contact manager of AScotM/crmos as a state machine.                 *)
(*                                                                         *)
(* version2 (src/version2/crmos2.py) is the multi-user application with    *)
(* categories, pagination and export; version1 (src/version1/crmos.py) is  *)
(* the earlier application with the same login gate and one shared         *)
(* contact list.  The variable `version` is fixed by Init and selects      *)
(* which application is running.                                           *)
(*                                                                         *)
(* Text is a sequence of one-character strings, so that strip(), the       *)
(* regular expressions, LIKE and ORDER BY are computed character by        *)
(* character.  A request handler is an operator from the database, the     *)
(* session of the requesting browser and the request's inputs to the new   *)
(* database, the new session and the response; one action per route        *)
(* applies it to inputs drawn from small sets.  The response is the        *)
(* output of a step and is not kept in the state: a property of responses  *)
(* is stated of the handler applied to the current state, for every input. *)
(* Timestamps (created_at, updated_at) are not modelled.  Flask keeps      *)
(* flashed messages in the session cookie until the next page renders      *)
(* them; here they are carried by the response that flashed them, and      *)
(* `session` holds the keys the handlers read and write.                   *)
(***************************************************************************)
EXTENDS Integers, Sequences, FiniteSets, TLC

VARIABLES version, db, session, running, handles

vars == <<version, db, session, running, handles>>

----------------------------------------------------------------------------
(* Characters and text *)

Printable ==
    << " ", "!", "\"", "#", "$", "%", "&", "'", "(", ")", "*", "+", ",", "-",
       ".", "/", "0", "1", "2", "3", "4", "5", "6", "7", "8", "9", ":", ";",
       "<", "=", ">", "?", "@", "A", "B", "C", "D", "E", "F", "G", "H", "I",
       "J", "K", "L", "M", "N", "O", "P", "Q", "R", "S", "T", "U", "V", "W",
       "X", "Y", "Z", "[", "\\", "]", "^", "_", "GRAVE", "a", "b", "c", "d", "e",
       "f", "g", "h", "i", "j", "k", "l", "m", "n", "o", "p", "q", "r", "s",
       "t", "u", "v", "w", "x", "y", "z", "{", "|", "}", "~" >>

\* The code point of a character: tab, line feed, or printable ASCII 32..126
\* ("GRAVE" stands for the grave accent, code 96, which no input uses).
Ord(c) ==
    IF c = "\t" THEN 9
    ELSE IF c = "\n" THEN 10
    ELSE 31 + (CHOOSE i \in 1..Len(Printable) : Printable[i] = c)

Digits == {"0", "1", "2", "3", "4", "5", "6", "7", "8", "9"}

UpperLetters == {Printable[i] : i \in 34..59}

LowerLetters == {Printable[i] : i \in 66..91}

Letters == UpperLetters \cup LowerLetters

\* What str.strip() removes and what \s matches, within the alphabet above.
Whitespace == {" ", "\t", "\n"}

AllIn(s, lo, hi, class) == \A i \in lo..hi : s[i] \in class

RECURSIVE LStrip(_)
LStrip(s) ==
    IF s # <<>> /\ Head(s) \in Whitespace THEN LStrip(Tail(s)) ELSE s

RECURSIVE RStrip(_)
RStrip(s) ==
    IF s # <<>> /\ s[Len(s)] \in Whitespace
    THEN RStrip(SubSeq(s, 1, Len(s) - 1))
    ELSE s

\* str.strip() as it would be if it were str.lstrip().
Strip_LeftOnly(s) == LStrip(s)

\* str.strip()
Strip(s) == RStrip(LStrip(s))

\* Bytewise comparison of two texts (the BINARY collation of SQLite).
RECURSIVE TextLess(_, _)
TextLess(a, b) ==
    IF b = <<>> THEN FALSE
    ELSE IF a = <<>> THEN TRUE
    ELSE IF Head(a) = Head(b) THEN TextLess(Tail(a), Tail(b))
    ELSE Ord(Head(a)) < Ord(Head(b))

\* Where the $ of a Python pattern (without re.MULTILINE) can stand: at the
\* end of the text, or just before a line feed that ends the text.  The set
\* of texts the part of the pattern before $ may have to match in full.
DollarEnds(s) ==
    {s} \cup (IF s # <<>> /\ s[Len(s)] = "\n"
              THEN {SubSeq(s, 1, Len(s) - 1)}
              ELSE {})

----------------------------------------------------------------------------
(* Validation *)

validate_name(name) == name # <<>> /\ Len(Strip(name)) >= 2

PhoneClass == Digits \cup Whitespace \cup {"-", "+", "(", ")"}

\* PhoneBody as it would be if the pattern were {7,}.
PhoneBody_NoMaximum(s) == Len(s) >= 7 /\ AllIn(s, 1, Len(s), PhoneClass)

PhoneBody(s) == Len(s) >= 7 /\ Len(s) <= 20 /\ AllIn(s, 1, Len(s), PhoneClass)

validate_phone(phone) ==
    IF phone = <<>> THEN TRUE ELSE \E t \in DollarEnds(phone) : PhoneBody(t)

\* version1 has the same pattern as version2.
v1_validate_phone(phone) ==
    IF phone = <<>> THEN TRUE ELSE \E t \in DollarEnds(phone) : PhoneBody(t)

\* barebone: ^[\d\s\-\+\(\)]{10,20}$
barebone_PhoneBody(s) ==
    Len(s) >= 10 /\ Len(s) <= 20 /\ AllIn(s, 1, Len(s), PhoneClass)

barebone_validate_phone(phone) ==
    IF phone = <<>> THEN TRUE
    ELSE \E t \in DollarEnds(phone) : barebone_PhoneBody(t)

EmailLocalClass == Letters \cup Digits \cup {".", "_", "%", "+", "-"}

EmailDomainClass == Letters \cup Digits \cup {".", "-"}

\* [local]+ @ [domain]+ \. [letters]{2,}
EmailBody(s) ==
    \E i \in 2..Len(s) : \E j \in (i + 2)..(Len(s) - 2) :
        /\ s[i] = "@"
        /\ s[j] = "."
        /\ AllIn(s, 1, i - 1, EmailLocalClass)
        /\ AllIn(s, i + 1, j - 1, EmailDomainClass)
        /\ AllIn(s, j + 1, Len(s), Letters)

validate_email(email) ==
    IF email = <<>> THEN TRUE ELSE \E t \in DollarEnds(email) : EmailBody(t)

----------------------------------------------------------------------------
(* SQL text operators *)

\* lower() as LIKE applies it: ASCII letters only.
Lower(c) == IF c \in UpperLetters THEN Printable[Ord(c) - 31 + 32] ELSE c

\* text LIKE pattern, with SQLite's defaults: % matches any run of
\* characters, _ matches one character, ASCII letters match without case,
\* and there is no escape character.
RECURSIVE Like(_, _)
Like(text, pattern) ==
    IF pattern = <<>> THEN text = <<>>
    ELSE IF Head(pattern) = "%"
         THEN \/ Like(text, Tail(pattern))
              \/ text # <<>> /\ Like(Tail(text), pattern)
    ELSE /\ text # <<>>
         /\ Head(pattern) = "_" \/ Lower(Head(pattern)) = Lower(Head(text))
         /\ Like(Tail(text), Tail(pattern))

\* ORDER BY name over rows that carry an id: SQLite feeds its sorter in rowid
\* order and the sorter keeps that order among equal names, so the result is
\* ordered by (name, id), the same for every LIMIT and OFFSET.
RowBefore(a, b) ==
    \/ TextLess(a.name, b.name)
    \/ a.name = b.name /\ a.id < b.id

RECURSIVE OrderByName(_)
OrderByName(rows) ==
    IF rows = {} THEN <<>>
    ELSE LET first == CHOOSE r \in rows : \A o \in rows \ {r} : RowBefore(r, o)
         IN  <<first>> \o OrderByName(rows \ {first})

\* LIMIT limit OFFSET offset; SQLite reads a negative OFFSET as 0.
LimitOffset(rows, limit, offset) ==
    LET off == IF offset < 0 THEN 0 ELSE offset
        last == IF off + limit < Len(rows) THEN off + limit ELSE Len(rows)
    IN  SubSeq(rows, off + 1, last)

----------------------------------------------------------------------------
(* Texts the application itself names *)

General == <<"G", "e", "n", "e", "r", "a", "l">>

Family == <<"F", "a", "m", "i", "l", "y">>

Work == <<"W", "o", "r", "k">>

Friends == <<"F", "r", "i", "e", "n", "d", "s">>

Blue == <<"#", "3", "B", "8", "2", "F", "6">>

Red == <<"#", "E", "F", "4", "4", "4", "4">>

Green == <<"#", "1", "0", "B", "9", "8", "1">>

Amber == <<"#", "F", "5", "9", "E", "0", "B">>

\* The (name, color) pairs of the four default categories, in insert order.
default_categories ==
    << <<General, Blue>>, <<Family, Red>>, <<Work, Green>>, <<Friends, Amber>> >>

----------------------------------------------------------------------------
(* The database: three tables and the AUTOINCREMENT counters *)

\* The next id of a table: AUTOINCREMENT never reuses an id.
NextId(d, table) == d.seq[table] + 1

\* INSERT INTO categories (user_id, name, color) for each pair, in order.
RECURSIVE InsertCategories(_, _, _)
InsertCategories(d, user_id, pairs) ==
    IF pairs = <<>> THEN d
    ELSE LET id == NextId(d, "categories")
             row == [id |-> id, user_id |-> user_id,
                     name |-> Head(pairs)[1], color |-> Head(pairs)[2]]
             d1 == [d EXCEPT !.categories = @ \cup {row},
                             !.seq.categories = id]
         IN  InsertCategories(d1, user_id, Tail(pairs))

EmptyDb ==
    [users |-> {}, contacts |-> {}, categories |-> {},
     seq |-> [users |-> 0, contacts |-> 0, categories |-> 0]]

\* init_db() on a new database file.  version2 creates the three tables and
\* inserts the four default categories with user_id 1; version1 creates
\* contacts and users only, barebone contacts only.
init_db(v) ==
    IF v = 2 THEN InsertCategories(EmptyDb, 1, default_categories) ELSE EmptyDb

----------------------------------------------------------------------------
(* Passwords, sessions, responses *)

\* werkzeug's salted hash, seen only through check_password_hash: the hash
\* of a password verifies that password and no other.
generate_password_hash(password) == [hash_of |-> password]

\* check_password_hash as it would be if it accepted every password.
check_password_hash_Any(pw_hash, password) == TRUE

check_password_hash(pw_hash, password) == pw_hash.hash_of = password

\* A session with no keys.
NoSession == [k \in {} |-> 0]

LoggedIn(s) == "user_id" \in DOMAIN s

\* A response that carries no data.
NoData == [k \in {} |-> 0]

redirect(target, message) ==
    [kind |-> "redirect", target |-> target, flash |-> message, data |-> NoData]

render_template(template, message, data) ==
    [kind |-> "render", target |-> template, flash |-> message, data |-> data]

\* What a handler returns: the database, the session of the requesting
\* browser and the response.
Out(d, s, r) == [db |-> d, session |-> s, resp |-> r]

\* login_required as it would be with the wrong redirect target.
login_required_ToIndex(s, d, result) ==
    IF ~LoggedIn(s)
    THEN Out(d, s, redirect("index", "Please log in first"))
    ELSE result

\* @login_required: without user_id in the session the handler is not run.
login_required(s, d, result) ==
    IF ~LoggedIn(s)
    THEN Out(d, s, redirect("login", "Please log in first"))
    ELSE result

----------------------------------------------------------------------------
(* version2: authentication routes *)

\* The users row a username selects (username is UNIQUE), as a set.
UserByName(d, username) == {u \in d.users : u.username = username}

\* UsernameTaken as it would be without the UNIQUE constraint.
UsernameTaken_NoUnique(d, username) == FALSE

\* INSERT INTO users: the UNIQUE constraint on username decides.
UsernameTaken(d, username) == UserByName(d, username) # {}

register(d, s, method, form) ==
    IF method = "POST"
    THEN LET username == Strip(form.username)
             password == Strip(form.password)
         IN  IF Len(username) < 3
             THEN Out(d, s, render_template("register.html",
                      "Username must be at least 3 characters", NoData))
             ELSE IF Len(password) < 6
             THEN Out(d, s, render_template("register.html",
                      "Password must be at least 6 characters", NoData))
             ELSE IF UsernameTaken(d, username)
             THEN \* sqlite3.IntegrityError: nothing was inserted
                  Out(d, s, render_template("register.html",
                      "Username already exists", NoData))
             ELSE LET user_id == NextId(d, "users")
                      row == [id |-> user_id, username |-> username,
                              password_hash |-> generate_password_hash(password)]
                      d1 == [d EXCEPT !.users = @ \cup {row},
                                      !.seq.users = user_id]
                      d2 == InsertCategories(d1, user_id, default_categories)
                  IN  Out(d2, s, redirect("login",
                          "Registration successful. Please log in."))
    ELSE Out(d, s, render_template("register.html", "", NoData))

login(d, s, method, form) ==
    IF method = "POST"
    THEN LET username == Strip(form.username)
             password == Strip(form.password)
             found == UserByName(d, username)
         IN  IF \E user \in found :
                    check_password_hash(user.password_hash, password)
             THEN \* user_id and username are the only keys a session ever holds
                  LET user == CHOOSE u \in found : TRUE
                      s1 == [user_id |-> user.id, username |-> user.username]
                  IN  Out(d, s1, redirect("index", "Welcome back!"))
             ELSE Out(d, s, render_template("login.html",
                      "Invalid credentials", NoData))
    ELSE Out(d, s, render_template("login.html", "", NoData))

\* logout as it would be without session.clear().
logout_NoClear(d, s) ==
    Out(d, s, redirect("login", "Logged out successfully"))

logout(d, s) ==
    \* session.clear()
    Out(d, NoSession, redirect("login", "Logged out successfully"))

----------------------------------------------------------------------------
(* version2: contact routes *)

per_page == 10

\* request.form.get(key, default) and request.args.get(key, default)
Get(form, key, default) == IF key \in DOMAIN form THEN form[key] ELSE default

\* get_pagination as it would be with the offset one page too far.
get_pagination_PageTimesSize(page, size) == <<page * size, size>>

get_pagination(page, size) == <<(page - 1) * size, size>>

UserCategories(d, user_id) ==
    OrderByName({c \in d.categories : c.user_id = user_id})

SearchParam(search) == <<"%">> \o search \o <<"%">>

\* ListingWhere as it would be if a row had to pass only one of the two
\* filters when both are given.
ListingWhere_EitherFilter(c, user_id, search, category_filter) ==
    /\ c.user_id = user_id
    /\ \/ search = <<>> /\ category_filter = <<>>
       \/ /\ search # <<>>
          /\ \/ Like(c.name, SearchParam(search))
             \/ Like(c.phone, SearchParam(search))
             \/ Like(c.email, SearchParam(search))
             \/ Like(c.notes, SearchParam(search))
       \/ category_filter # <<>> /\ c.category = category_filter

\* ListingWhere as it would be without the user_id condition.
ListingWhere_NoOwner(c, user_id, search, category_filter) ==
    /\ search # <<>> =>
          \/ Like(c.name, SearchParam(search))
          \/ Like(c.phone, SearchParam(search))
          \/ Like(c.email, SearchParam(search))
          \/ Like(c.notes, SearchParam(search))
    /\ category_filter # <<>> => c.category = category_filter

\* The WHERE clause of the listing query of index.
ListingWhere(c, user_id, search, category_filter) ==
    /\ c.user_id = user_id
    /\ search # <<>> =>
          \/ Like(c.name, SearchParam(search))
          \/ Like(c.phone, SearchParam(search))
          \/ Like(c.email, SearchParam(search))
          \/ Like(c.notes, SearchParam(search))
    /\ category_filter # <<>> => c.category = category_filter

\* The WHERE clause of the count query of index, built a second time.
CountWhere(c, user_id, search, category_filter) ==
    /\ c.user_id = user_id
    /\ search # <<>> =>
          \/ Like(c.name, SearchParam(search))
          \/ Like(c.phone, SearchParam(search))
          \/ Like(c.email, SearchParam(search))
          \/ Like(c.notes, SearchParam(search))
    /\ category_filter # <<>> => c.category = category_filter

\* SELECT COUNT(*) as total FROM contacts WHERE ...
CountQuery(d, user_id, search, category_filter) ==
    Cardinality({c \in d.contacts :
        CountWhere(c, user_id, search, category_filter)})

index(d, s, args) ==
    LET search == Strip(Get(args, "search", <<>>))
        category_filter == Strip(Get(args, "category", <<>>))
        page == Get(args, "page", 1)
        offset == get_pagination(page, per_page)[1]
        size == get_pagination(page, per_page)[2]
        categories == UserCategories(d, s.user_id)
        contacts ==
            LimitOffset(
                OrderByName({c \in d.contacts :
                    ListingWhere(c, s.user_id, search, category_filter)}),
                size, offset)
        total == CountQuery(d, s.user_id, search, category_filter)
        total_pages == (total + size - 1) \div size
    IN  login_required(s, d,
            Out(d, s, render_template("index.html", "",
                [contacts |-> contacts, categories |-> categories,
                 search |-> search, category_filter |-> category_filter,
                 username |-> s.username, page |-> page,
                 total_pages |-> total_pages])))

\* ValidationError as it would be without the email check.
ValidationError_NoEmail(name, phone, email) ==
    IF ~validate_name(name)
    THEN "Name is required and must be at least 2 characters"
    ELSE IF ~validate_phone(phone) THEN "Invalid phone number format"
    ELSE ""

\* The first validation that fails, as the message flashed for it, or "".
ValidationError(name, phone, email) ==
    IF ~validate_name(name)
    THEN "Name is required and must be at least 2 characters"
    ELSE IF ~validate_phone(phone) THEN "Invalid phone number format"
    ELSE IF ~validate_email(email) THEN "Invalid email format"
    ELSE ""

add(d, s, form) ==
    LET name == Strip(Get(form, "name", <<>>))
        phone == Strip(Get(form, "phone", <<>>))
        email == Strip(Get(form, "email", <<>>))
        address == Strip(Get(form, "address", <<>>))
        notes == Strip(Get(form, "notes", <<>>))
        category == Strip(Get(form, "category", General))
        error == ValidationError(name, phone, email)
        id == NextId(d, "contacts")
        row == [id |-> id, user_id |-> s.user_id, name |-> name,
                phone |-> phone, email |-> email, address |-> address,
                notes |-> notes, category |-> category]
    IN  login_required(s, d,
            IF error # ""
            THEN Out(d, s, redirect("index", error))
            ELSE Out([d EXCEPT !.contacts = @ \cup {row}, !.seq.contacts = id],
                     s, redirect("index", "Contact added successfully")))

\* OwnContact as it would be without the user_id condition.
OwnContact_AnyOwner(d, id, user_id) == {c \in d.contacts : c.id = id}

\* SELECT * FROM contacts WHERE id = ? AND user_id = ?, as a set of rows.
OwnContact(d, id, user_id) ==
    {c \in d.contacts : c.id = id /\ c.user_id = user_id}

edit(d, s, id, method, form) ==
    LET found == OwnContact(d, id, s.user_id)
        contact == CHOOSE c \in found : TRUE
        categories == UserCategories(d, s.user_id)
        name == Strip(Get(form, "name", <<>>))
        phone == Strip(Get(form, "phone", <<>>))
        email == Strip(Get(form, "email", <<>>))
        address == Strip(Get(form, "address", <<>>))
        notes == Strip(Get(form, "notes", <<>>))
        category == Strip(Get(form, "category", General))
        error == ValidationError(name, phone, email)
        form_page(message) ==
            render_template("edit.html", message,
                [contact |-> contact, categories |-> categories])
        updated == [contact EXCEPT !.name = name, !.phone = phone,
                                   !.email = email, !.address = address,
                                   !.notes = notes, !.category = category]
    IN  login_required(s, d,
            IF found = {}
            THEN Out(d, s, redirect("index", "Contact not found"))
            ELSE IF method = "POST"
            THEN IF error # ""
                 THEN Out(d, s, form_page(error))
                 ELSE Out([d EXCEPT !.contacts =
                              {IF c.id = id /\ c.user_id = s.user_id
                               THEN updated ELSE c : c \in @}],
                          s, redirect("index", "Contact updated successfully"))
            ELSE Out(d, s, form_page("")))

\* delete as it would be if it did not look at rowcount.
delete_IgnoresRowcount(d, s, id) ==
    LET deleted == OwnContact(d, id, s.user_id)
    IN  login_required(s, d,
            Out([d EXCEPT !.contacts = @ \ deleted], s,
                redirect("index", "Contact deleted successfully")))

delete(d, s, id) ==
    LET deleted == OwnContact(d, id, s.user_id)
    IN  login_required(s, d,
            IF Cardinality(deleted) = 0
            THEN Out(d, s, redirect("index",
                "Contact not found or you don't have permission to delete it"))
            ELSE Out([d EXCEPT !.contacts = @ \ deleted], s,
                     redirect("index", "Contact deleted successfully")))

----------------------------------------------------------------------------
(* version2: category routes and export *)

categories(d, s) ==
    login_required(s, d,
        Out(d, s, render_template("categories.html", "",
            [categories |-> UserCategories(d, s.user_id)])))

add_category(d, s, form) ==
    LET name == Strip(Get(form, "name", <<>>))
        color == Strip(Get(form, "color", Blue))
    IN  login_required(s, d,
            IF name = <<>>
            THEN Out(d, s, redirect("categories", "Category name is required"))
            ELSE \* the categories table has no UNIQUE constraint
                 Out(InsertCategories(d, s.user_id, << <<name, color>> >>), s,
                     redirect("categories", "Category added successfully")))

\* SELECT name FROM categories WHERE id = ? AND user_id = ?, as a set of rows.
OwnCategory(d, id, user_id) ==
    {c \in d.categories : c.id = id /\ c.user_id = user_id}

\* InUse as it would be if the count were not restricted to the contacts of
\* the user.
InUse_AnyOwner(d, id, user_id) ==
    Cardinality({c \in d.contacts :
        \E g \in OwnCategory(d, id, user_id) : c.category = g.name})

\* SELECT COUNT(*) FROM contacts WHERE category = (SELECT name FROM
\* categories WHERE id = ? AND user_id = ?) AND user_id = ?.  The comparison
\* is false of every row when the subquery selects nothing.
InUse(d, id, user_id) ==
    Cardinality({c \in d.contacts :
        /\ \E g \in OwnCategory(d, id, user_id) : c.category = g.name
        /\ c.user_id = user_id})

\* delete_category as it would be without the check for the default names.
delete_category_NoDefaultCheck(d, s, id) ==
    LET found == OwnCategory(d, id, s.user_id)
    IN  login_required(s, d,
            IF InUse(d, id, s.user_id) > 0
            THEN Out(d, s, redirect("categories",
                     "Cannot delete category that is in use by contacts"))
            ELSE IF Cardinality(found) = 0
            THEN Out(d, s, redirect("categories", "Category not found"))
            ELSE Out([d EXCEPT !.categories = @ \ found], s,
                     redirect("categories", "Category deleted successfully")))

delete_category(d, s, id) ==
    LET found == OwnCategory(d, id, s.user_id)
        defaults == {General, Family, Work, Friends}
    IN  login_required(s, d,
            IF InUse(d, id, s.user_id) > 0
            THEN Out(d, s, redirect("categories",
                     "Cannot delete category that is in use by contacts"))
            ELSE IF \E g \in found : g.name \in defaults
            THEN Out(d, s, redirect("categories",
                     "Cannot delete default categories"))
            ELSE IF Cardinality(found) = 0
            THEN Out(d, s, redirect("categories", "Category not found"))
            ELSE Out([d EXCEPT !.categories = @ \ found], s,
                     redirect("categories", "Category deleted successfully")))

\* The six columns export selects from a contacts row.
ExportColumns(c) ==
    [name |-> c.name, phone |-> c.phone, email |-> c.email,
     address |-> c.address, notes |-> c.notes, category |-> c.category]

CsvHeader ==
    << "N", "a", "m", "e", ",", "P", "h", "o", "n", "e", ",",
       "E", "m", "a", "i", "l", ",", "A", "d", "d", "r", "e", "s", "s", ",",
       "N", "o", "t", "e", "s", ",", "C", "a", "t", "e", "g", "o", "r", "y",
       "\n" >>

\* One line of the f-string: each value between double quotes, as it is.
CsvLine(r) ==
    LET q == <<"\"">>
        sep == <<"\"", ",", "\"">>
    IN  q \o r.name \o sep \o r.phone \o sep \o r.email \o sep \o r.address
          \o sep \o r.notes \o sep \o r.category \o q \o <<"\n">>

RECURSIVE CsvLines(_)
CsvLines(rows) ==
    IF rows = <<>> THEN <<>> ELSE CsvLine(Head(rows)) \o CsvLines(Tail(rows))

export_contacts(d, s) ==
    LET selected == OrderByName({c \in d.contacts : c.user_id = s.user_id})
        contacts == [i \in 1..Len(selected) |-> ExportColumns(selected[i])]
        csv_content == CsvHeader \o CsvLines(contacts)
    IN  login_required(s, d,
            Out(d, s, [kind |-> "file", target |-> "my_contacts.csv",
                       flash |-> "",
                       data |-> [contacts |-> contacts,
                                 csv_content |-> csv_content]]))

----------------------------------------------------------------------------
(* version2 when the database fails: what each handler returns when a *)
(* call on the connection raises sqlite3.OperationalError (the file is *)
(* locked, the disk is full).  The with block rolls back what the handler *)
(* wrote before the failure, so the database is as it was. *)

\* No except clause of the handler matches: the exception leaves the
\* handler.  Under app.run(debug=True) Flask re-raises it to the debugger;
\* otherwise internal_error answers 500 with error.html.  Neither flashes
\* a message.
unhandled(exception) ==
    [kind |-> "exception", target |-> exception, flash |-> "", data |-> NoData]

\* register catches sqlite3.IntegrityError only.
register_db_error(d, s, method, form) ==
    IF method = "POST"
    THEN IF Len(Strip(form.username)) < 3
         THEN Out(d, s, render_template("register.html",
                  "Username must be at least 3 characters", NoData))
         ELSE IF Len(Strip(form.password)) < 6
         THEN Out(d, s, render_template("register.html",
                  "Password must be at least 6 characters", NoData))
         ELSE Out(d, s, unhandled("sqlite3.OperationalError"))
    ELSE Out(d, s, render_template("register.html", "", NoData))

\* login has no try statement.
login_db_error(d, s, method, form) ==
    IF method = "POST"
    THEN Out(d, s, unhandled("sqlite3.OperationalError"))
    ELSE Out(d, s, render_template("login.html", "", NoData))

index_db_error(d, s, args) ==
    login_required(s, d,
        Out(d, s, render_template("index.html", "Database error occurred",
            [contacts |-> <<>>,
             search |-> Strip(Get(args, "search", <<>>)),
             username |-> s.username])))

add_db_error(d, s, form) ==
    LET error == ValidationError(Strip(Get(form, "name", <<>>)),
                                 Strip(Get(form, "phone", <<>>)),
                                 Strip(Get(form, "email", <<>>)))
    IN  login_required(s, d,
            IF error # "" THEN Out(d, s, redirect("index", error))
            ELSE Out(d, s, redirect("index", "Failed to add contact")))

edit_db_error(d, s, id, method, form) ==
    login_required(s, d, Out(d, s, redirect("index", "Database error occurred")))

delete_db_error(d, s, id) ==
    login_required(s, d, Out(d, s, redirect("index", "Failed to delete contact")))

categories_db_error(d, s) ==
    login_required(s, d,
        Out(d, s, render_template("categories.html", "Database error occurred",
            [categories |-> <<>>])))

add_category_db_error(d, s, form) ==
    login_required(s, d,
        IF Strip(Get(form, "name", <<>>)) = <<>>
        THEN Out(d, s, redirect("categories", "Category name is required"))
        ELSE Out(d, s, redirect("categories", "Failed to add category")))

delete_category_db_error(d, s, id) ==
    login_required(s, d,
        Out(d, s, redirect("categories", "Failed to delete category")))

export_contacts_db_error(d, s) ==
    login_required(s, d,
        Out(d, s, redirect("index", "Failed to export contacts")))

----------------------------------------------------------------------------
(* barebone: one contact list, no login *)

barebone_add(d, s, form) ==
    LET name == Strip(Get(form, "name", <<>>))
        phone == Strip(Get(form, "phone", <<>>))
        address == Strip(Get(form, "address", <<>>))
        notes == Strip(Get(form, "notes", <<>>))
        id == NextId(d, "contacts")
        row == [id |-> id, name |-> name, phone |-> phone,
                address |-> address, notes |-> notes]
    IN  IF ~validate_name(name)
        THEN Out(d, s, redirect("index",
                 "Name is required and must be at least 2 characters"))
        ELSE IF ~barebone_validate_phone(phone)
        THEN Out(d, s, redirect("index", "Invalid phone number format"))
        ELSE Out([d EXCEPT !.contacts = @ \cup {row}, !.seq.contacts = id],
                 s, redirect("index", "Contact added successfully"))

----------------------------------------------------------------------------
(* version1: one shared contact list behind the same login gate *)

v1_register(d, s, method, form) ==
    IF method = "POST"
    THEN LET username == Strip(form.username)
             password == Strip(form.password)
         IN  IF Len(username) < 3 \/ Len(password) < 6
             THEN Out(d, s, redirect("register",
                      "Username must be >=3 chars and password >=6 chars"))
             ELSE IF UsernameTaken(d, username)
             THEN Out(d, s, render_template("REG_TEMPLATE",
                      "Username already exists", NoData))
             ELSE LET user_id == NextId(d, "users")
                      row == [id |-> user_id, username |-> username,
                              password_hash |-> generate_password_hash(password)]
                  IN  Out([d EXCEPT !.users = @ \cup {row},
                                    !.seq.users = user_id],
                          s, redirect("login",
                                 "Registration successful. Please log in."))
    ELSE Out(d, s, render_template("REG_TEMPLATE", "", NoData))

v1_login(d, s, method, form) ==
    IF method = "POST"
    THEN LET username == Strip(form.username)
             password == Strip(form.password)
             found == UserByName(d, username)
         IN  IF \E user \in found :
                    check_password_hash(user.password_hash, password)
             THEN LET user == CHOOSE u \in found : TRUE
                      s1 == [user_id |-> user.id, username |-> user.username]
                  IN  Out(d, s1, redirect("index", "Welcome back!"))
             ELSE Out(d, s, render_template("LOGIN_TEMPLATE",
                      "Invalid credentials", NoData))
    ELSE Out(d, s, render_template("LOGIN_TEMPLATE", "", NoData))

v1_logout(d, s) ==
    Out(d, NoSession, redirect("login", "Logged out successfully"))

v1_login_required(s, d, result) ==
    IF ~LoggedIn(s)
    THEN Out(d, s, redirect("login", "Please log in first"))
    ELSE result

v1_index(d, s, args) ==
    LET search == Strip(Get(args, "search", <<>>))
        contacts ==
            IF search # <<>>
            THEN OrderByName({c \in d.contacts :
                     \/ Like(c.name, SearchParam(search))
                     \/ Like(c.phone, SearchParam(search))
                     \/ Like(c.notes, SearchParam(search))})
            ELSE OrderByName(d.contacts)
    IN  v1_login_required(s, d,
            Out(d, s, render_template("TEMPLATE", "",
                [contacts |-> contacts, search |-> search,
                 username |-> s.username])))

v1_add(d, s, form) ==
    LET name == Strip(Get(form, "name", <<>>))
        phone == Strip(Get(form, "phone", <<>>))
        address == Strip(Get(form, "address", <<>>))
        notes == Strip(Get(form, "notes", <<>>))
        id == NextId(d, "contacts")
        row == [id |-> id, name |-> name, phone |-> phone,
                address |-> address, notes |-> notes]
    IN  v1_login_required(s, d,
            IF ~validate_name(name)
            THEN Out(d, s, redirect("index",
                     "Name is required and must be at least 2 characters"))
            ELSE IF ~v1_validate_phone(phone)
            THEN Out(d, s, redirect("index", "Invalid phone number format"))
            ELSE Out([d EXCEPT !.contacts = @ \cup {row}, !.seq.contacts = id],
                     s, redirect("index", "Contact added successfully")))

v1_edit(d, s, id, method, form) ==
    LET found == {c \in d.contacts : c.id = id}
        contact == CHOOSE c \in found : TRUE
        name == Strip(Get(form, "name", <<>>))
        phone == Strip(Get(form, "phone", <<>>))
        address == Strip(Get(form, "address", <<>>))
        notes == Strip(Get(form, "notes", <<>>))
        form_page(message) ==
            render_template("EDIT_TEMPLATE", message, [contact |-> contact])
        updated == [contact EXCEPT !.name = name, !.phone = phone,
                                   !.address = address, !.notes = notes]
    IN  v1_login_required(s, d,
            IF found = {}
            THEN Out(d, s, redirect("index", "Contact not found"))
            ELSE IF method = "POST"
            THEN IF ~validate_name(name)
                 THEN Out(d, s, form_page(
                     "Name is required and must be at least 2 characters"))
                 ELSE IF ~v1_validate_phone(phone)
                 THEN Out(d, s, form_page("Invalid phone number format"))
                 ELSE Out([d EXCEPT !.contacts =
                              {IF c.id = id THEN updated ELSE c : c \in @}],
                          s, redirect("index", "Contact updated successfully"))
            ELSE Out(d, s, form_page("")))

v1_delete(d, s, id) ==
    v1_login_required(s, d,
        Out([d EXCEPT !.contacts = {c \in @ : c.id # id}], s,
            redirect("index", "Contact deleted successfully")))

----------------------------------------------------------------------------
(* Bounds and the inputs requests are drawn from *)

\* INSERTs into contacts in one behaviour of Spec.
MaxContacts == 2

\* INSERTs into categories made by add_category in one behaviour of Spec.
MaxCategoryAdds == 1

\* INSERTs into contacts in one behaviour of SpecPaging.
MaxPagingContacts == 12

\* INSERTs into contacts in one behaviour of SpecSearch.
MaxSearchContacts == 3

\* The longest phone text SpecPhone submits.
MaxPhoneLen == 22

\* INSERTs into contacts in one behaviour of SpecPhone.
MaxPhoneContacts == 1

\* INSERTs into contacts in one behaviour of SpecExport.
MaxExportContacts == 3

\* The largest page number SpecPaging asks for.
MaxPage == 3

\* Two browsers, each with its own session cookie.
Clients == {"browser1", "browser2"}

\* A GET carries no form.
NoForm == [k \in {} |-> <<>>]

\* A route that takes GET and POST is asked with a GET or with one of the
\* forms posted.
Submissions(forms) ==
    {[method |-> "GET", form |-> NoForm]}
        \cup {[method |-> "POST", form |-> f] : f \in forms}

Alice == <<"a", "l", "i", "c", "e">>

Bob == <<"b", "o", "b">>

Secret1 == <<"s", "e", "c", "r", "e", "t", "1">>

\* Forms of register and login: alice, bob with blanks to trim, bob again, a
\* username too short once trimmed, and for alice a password too short once
\* trimmed (and so also a wrong password for alice).
CredentialForms ==
    {[username |-> Alice, password |-> Secret1],
     [username |-> <<" ">> \o Bob \o <<" ">>, password |-> <<" ">> \o Secret1],
     [username |-> Bob, password |-> Secret1],
     [username |-> <<"a", "l", " ">>, password |-> Secret1],
     [username |-> Alice, password |-> <<"a", "b", "c", "d", "e", " ">>]}

Sam == <<"S", "a", "m">>

Bo == <<"B", "o">>

Phone == <<"5", "5", "5", "-", "1", "2", "3", "4">>

Email == <<"s", "a", "m", "@", "x", ".", "i", "o">>

Address == <<"1", " ", "M", "a", "i", "n">>

Notes == <<"v", "i", "p">>

\* Every field given, each with whitespace to trim.
FormSam ==
    [name |-> <<" ">> \o Sam \o <<" ">>, phone |-> Phone \o <<" ">>,
     email |-> <<"\t">> \o Email, address |-> Address \o <<"\n">>,
     notes |-> <<" ">> \o Notes, category |-> Work \o <<" ">>]

\* Only a name: every other key is missing from the form.
FormBo == [name |-> Bo]

\* A name of three characters that is one once trimmed.
FormShortName == [FormSam EXCEPT !.name = <<" ", "A", " ">>]

FormBadPhone == [FormSam EXCEPT !.phone = <<"1", "2">>]

FormBadEmail == [FormSam EXCEPT !.email = <<"s", "a", "m", "@", "x">>]

ContactForms == {FormSam, FormBo, FormShortName, FormBadPhone, FormBadEmail}

Gym == <<"G", "y", "m">>

CategoryForms == {[name |-> <<" ">> \o Gym], [name |-> Work, color |-> Red],
                  [name |-> <<" ">>]}

\* Query strings of index: a search that matches Sam without regard to case
\* once trimmed, a category filter, a page number, each given or not.
IndexArgs ==
    {[k \in keys |-> IF k = "search" THEN <<" ", "s", "A">>
                     ELSE IF k = "category" THEN Work
                     ELSE 2] :
        keys \in SUBSET {"search", "category", "page"}}

\* Ids a request names: those a table can hold, and one past them.
ContactIds == 1..(MaxContacts + 1)

CategoryIds(d) == 1..(d.seq.categories + 1)

----------------------------------------------------------------------------
(* The state machine *)

\* A browser with no request in progress.
Idle ==
    [route |-> "", pc |-> "idle", id |-> 0, method |-> "", form |-> NoForm,
     pending |-> EmptyDb, resp |-> redirect("", "")]

\* The connections that are open and belong to no request in progress:
\* those no longer referenced and not yet finalized, and those referenced
\* from the traceback of an exception that left its handler.
NoHandles == [unreferenced |-> 0, traceback |-> 0]

Init ==
    /\ version \in {1, 2}
    /\ db = init_db(version)
    /\ session = [c \in Clients |-> NoSession]
    /\ running = [c \in Clients |-> Idle]
    /\ handles = NoHandles

\* Browser c has sent a request and received what the handler returned.
Respond(c, out) ==
    /\ db' = out.db
    /\ session' = [session EXCEPT ![c] = out.session]
    /\ UNCHANGED <<version, running, handles>>

CategoryAdds(d) == d.seq.categories - 4 - 4 * Cardinality(d.users)

Register ==
    \E c \in Clients, r \in Submissions(CredentialForms) :
        /\ version = 2
        /\ Respond(c, register(db, session[c], r.method, r.form))

Login ==
    \E c \in Clients, r \in Submissions(CredentialForms) :
        /\ version = 2
        /\ Respond(c, login(db, session[c], r.method, r.form))

Logout ==
    \E c \in Clients :
        /\ version = 2
        /\ Respond(c, logout(db, session[c]))

Index ==
    \E c \in Clients, a \in IndexArgs :
        /\ version = 2
        /\ Respond(c, index(db, session[c], a))

Add ==
    \E c \in Clients, f \in ContactForms :
        /\ version = 2
        /\ db.seq.contacts < MaxContacts
        /\ Respond(c, add(db, session[c], f))

Edit ==
    \E c \in Clients, id \in ContactIds, r \in Submissions(ContactForms) :
        /\ version = 2
        /\ Respond(c, edit(db, session[c], id, r.method, r.form))

Delete ==
    \E c \in Clients, id \in ContactIds :
        /\ version = 2
        /\ Respond(c, delete(db, session[c], id))

Categories ==
    \E c \in Clients :
        /\ version = 2
        /\ Respond(c, categories(db, session[c]))

AddCategory ==
    \E c \in Clients, f \in CategoryForms :
        /\ version = 2
        /\ CategoryAdds(db) < MaxCategoryAdds
        /\ Respond(c, add_category(db, session[c], f))

DeleteCategory ==
    \E c \in Clients, id \in CategoryIds(db) :
        /\ version = 2
        /\ Respond(c, delete_category(db, session[c], id))

Export ==
    \E c \in Clients :
        /\ version = 2
        /\ Respond(c, export_contacts(db, session[c]))

V1Register ==
    \E c \in Clients, r \in Submissions(CredentialForms) :
        /\ version = 1
        /\ Respond(c, v1_register(db, session[c], r.method, r.form))

V1Login ==
    \E c \in Clients, r \in Submissions(CredentialForms) :
        /\ version = 1
        /\ Respond(c, v1_login(db, session[c], r.method, r.form))

V1Logout ==
    \E c \in Clients :
        /\ version = 1
        /\ Respond(c, v1_logout(db, session[c]))

V1Index ==
    \E c \in Clients, a \in IndexArgs :
        /\ version = 1
        /\ Respond(c, v1_index(db, session[c], a))

V1Add ==
    \E c \in Clients, f \in ContactForms :
        /\ version = 1
        /\ db.seq.contacts < MaxContacts
        /\ Respond(c, v1_add(db, session[c], f))

V1Edit ==
    \E c \in Clients, id \in ContactIds, r \in Submissions(ContactForms) :
        /\ version = 1
        /\ Respond(c, v1_edit(db, session[c], id, r.method, r.form))

V1Delete ==
    \E c \in Clients, id \in ContactIds :
        /\ version = 1
        /\ Respond(c, v1_delete(db, session[c], id))

Next ==
    \/ Register \/ Login \/ Logout \/ Index \/ Add \/ Edit \/ Delete
    \/ Categories \/ AddCategory \/ DeleteCategory \/ Export
    \/ V1Register \/ V1Login \/ V1Logout \/ V1Index \/ V1Add \/ V1Edit
    \/ V1Delete

Spec == Init /\ [][Next]_vars

----------------------------------------------------------------------------
(* The listing over many contacts: one user adds contacts and pages *)
(* through them, while another user owns a contact of the same name *)

\* alice and bob have registered, bob has logged in in browser2 and added a
\* contact, alice has logged in in browser1.
PagingStart ==
    LET alice == [username |-> Alice, password |-> Secret1]
        bob == [username |-> Bob, password |-> Secret1]
        d1 == register(init_db(2), NoSession, "POST", alice).db
        d2 == register(d1, NoSession, "POST", bob).db
        sb == login(d2, NoSession, "POST", bob).session
        d3 == add(d2, sb, FormSam).db
        sa == login(d3, NoSession, "POST", alice).session
    IN  [db |-> d3, session |-> [c \in Clients |->
                                    IF c = "browser1" THEN sa ELSE sb]]

PagingForms == {FormSam, FormBo}

\* A search and a category filter, each given or not: together they select
\* every contact, those named Sam, those named Bo, or none.
PagingFilters ==
    {[k \in keys |-> IF k = "search" THEN <<" ", "s", "A">> ELSE General] :
        keys \in SUBSET {"search", "category"}}

\* The query string of filter f and page number p.
WithPage(f, p) ==
    [k \in DOMAIN f \cup {"page"} |-> IF k = "page" THEN p ELSE f[k]]

InitPaging ==
    /\ version = 2
    /\ db = PagingStart.db
    /\ session = PagingStart.session
    /\ running = [c \in Clients |-> Idle]
    /\ handles = NoHandles

PagingAdd ==
    \E f \in PagingForms :
        /\ Cardinality(db.contacts) < MaxPagingContacts
        /\ Respond("browser1", add(db, session["browser1"], f))

PagingIndex ==
    \E f \in PagingFilters, p \in 0..MaxPage :
        Respond("browser1", index(db, session["browser1"], WithPage(f, p)))

NextPaging == PagingAdd \/ PagingIndex

SpecPaging == InitPaging /\ [][NextPaging]_vars

----------------------------------------------------------------------------
(* Categories and the contacts that carry them: two users add, *)
(* re-categorise and delete contacts, and add and delete categories *)

\* alice and bob have registered and logged in, each in a browser.
CategoriesStart ==
    LET alice == [username |-> Alice, password |-> Secret1]
        bob == [username |-> Bob, password |-> Secret1]
        d1 == register(init_db(2), NoSession, "POST", alice).db
        d2 == register(d1, NoSession, "POST", bob).db
        sa == login(d2, NoSession, "POST", alice).session
        sb == login(d2, NoSession, "POST", bob).session
    IN  [db |-> d2, session |-> [c \in Clients |->
                                    IF c = "browser1" THEN sa ELSE sb]]

\* A contact in the category Gym, a contact whose form has no category key,
\* and one whose category field was left empty.
FormInGym == [name |-> Sam, category |-> Gym]

FormEmptyCategory == [name |-> Bo, category |-> <<" ">>]

CategorisedForms == {FormInGym, FormBo, FormEmptyCategory}

InitCategories ==
    /\ version = 2
    /\ db = CategoriesStart.db
    /\ session = CategoriesStart.session
    /\ running = [c \in Clients |-> Idle]
    /\ handles = NoHandles

CatAddCategory ==
    \E c \in Clients, f \in CategoryForms :
        /\ CategoryAdds(db) < MaxCategoryAdds
        /\ Respond(c, add_category(db, session[c], f))

CatDeleteCategory ==
    \E c \in Clients, id \in CategoryIds(db) :
        Respond(c, delete_category(db, session[c], id))

CatAdd ==
    \E c \in Clients, f \in CategorisedForms :
        /\ db.seq.contacts < MaxContacts
        /\ Respond(c, add(db, session[c], f))

CatEdit ==
    \E c \in Clients, id \in ContactIds, f \in CategorisedForms :
        Respond(c, edit(db, session[c], id, "POST", f))

CatDelete ==
    \E c \in Clients, id \in ContactIds :
        Respond(c, delete(db, session[c], id))

NextCategories ==
    \/ CatAddCategory
    \/ CatDeleteCategory
    \/ CatAdd
    \/ CatEdit
    \/ CatDelete

SpecCategories == InitCategories /\ [][NextCategories]_vars

----------------------------------------------------------------------------
(* Search and category filter: two users add contacts and list them *)
(* with search terms and category filters of several kinds *)

\* A contact with a percent sign in its notes, an underscore in its email
\* and a category that differs from Work by case only.
FormAl ==
    [name |-> <<"A", "l">>, email |-> <<"a", "_", "l", "@", "x", ".", "i", "o">>,
     notes |-> <<"5", "0", "%">>, category |-> <<"w", "o", "r", "k">>]

SearchForms == {FormSam, FormBo, FormAl}

\* Search terms: part of a name in another case and with a blank to trim,
\* part of a phone, part of an email in another case, part of the notes,
\* the two characters LIKE reads as wildcards, alone and next to text, and
\* blanks only.
SearchTerms ==
    {<<" ", "s", "A">>, <<"5", "5", "5">>, <<"X", ".", "I">>, <<"v", "i">>,
     <<"%">>, <<"_">>, <<"_", "o">>, <<"0", "%">>, <<"a", "%", "m">>, <<" ">>}

\* Category filters: a stored category as it is, with blanks around it, in
\* another case, its first letter only, and a blank only.
CategoryFilters ==
    {Work, <<" ">> \o Work \o <<" ">>, <<"w", "o", "r", "k">>, <<"W">>,
     General, <<" ">>}

\* Query strings of the first page: a search term or none, a category filter
\* or none.
SearchArgs ==
    {NoForm}
        \cup {[search |-> t] : t \in SearchTerms}
        \cup {[category |-> g] : g \in CategoryFilters}
        \cup {[search |-> t, category |-> g] :
                 t \in SearchTerms, g \in CategoryFilters}

InitSearch ==
    /\ version = 2
    /\ db = CategoriesStart.db
    /\ session = CategoriesStart.session
    /\ running = [c \in Clients |-> Idle]
    /\ handles = NoHandles

SearchAdd ==
    \E c \in Clients, f \in SearchForms :
        /\ db.seq.contacts < MaxSearchContacts
        /\ Respond(c, add(db, session[c], f))

SearchIndex ==
    \E c \in Clients, a \in SearchArgs :
        Respond(c, index(db, session[c], a))

NextSearch == SearchAdd \/ SearchIndex

SpecSearch == InitSearch /\ [][NextSearch]_vars

----------------------------------------------------------------------------
(* Phone numbers: a contact is added with a phone text of every length *)
(* and of several make-ups, in each of the three applications *)

\* The applications by number: 0 is barebone.
Versions == {0, 1, 2}

\* Characters a phone text is made of here: two digits, the five other
\* characters the pattern names or \s matches, and two it does not name.
PhoneChars == {"5", "0", " ", "-", "+", "(", ")", "\t", "\n", "a", "."}

TwelveShort == <<"1", "2">>

PlusOne555 ==
    <<"+", "1", " ", "(", "5", "5", "5", ")", " ",
      "1", "2", "3", "-", "4", "5", "6", "7">>

\* The text of n characters that has x at place i and 5 everywhere else.
OneAmongFives(n, x, i) == [k \in 1..n |-> IF k = i THEN x ELSE "5"]

\* Texts of every length up to MaxPhoneLen: one character repeated, or fives
\* with one other character at the start, second, in the middle or at the end.
PhoneTexts ==
    {TwelveShort, PlusOne555}
        \cup {[k \in 1..n |-> x] : n \in 0..MaxPhoneLen, x \in PhoneChars}
        \cup UNION {{OneAmongFives(n, x, i) : x \in PhoneChars, i \in {1, 2, 5, n}} :
                       n \in 2..MaxPhoneLen}

\* The application of number v started on a new database; in version1 and
\* version2 alice has registered and logged in in browser1.
PhoneStart(v) ==
    LET alice == [username |-> Alice, password |-> Secret1]
        d1 == IF v = 2 THEN register(init_db(2), NoSession, "POST", alice).db
              ELSE IF v = 1
              THEN v1_register(init_db(1), NoSession, "POST", alice).db
              ELSE init_db(0)
        sa == IF v = 2 THEN login(d1, NoSession, "POST", alice).session
              ELSE IF v = 1 THEN v1_login(d1, NoSession, "POST", alice).session
              ELSE NoSession
    IN  [db |-> d1, session |-> [c \in Clients |->
                                    IF c = "browser1" THEN sa ELSE NoSession]]

InitPhone ==
    /\ version \in Versions
    /\ db = PhoneStart(version).db
    /\ session = PhoneStart(version).session
    /\ running = [c \in Clients |-> Idle]
    /\ handles = NoHandles

\* add of the running application.
AddOf(d, s, form) ==
    IF version = 2 THEN add(d, s, form)
    ELSE IF version = 1 THEN v1_add(d, s, form)
    ELSE barebone_add(d, s, form)

PhoneAdd ==
    \E p \in PhoneTexts :
        /\ db.seq.contacts < MaxPhoneContacts
        /\ Respond("browser1",
                   AddOf(db, session["browser1"], [name |-> Bo, phone |-> p]))

NextPhone == PhoneAdd

SpecPhone == InitPhone /\ [][NextPhone]_vars

----------------------------------------------------------------------------
(* Export: two users add contacts with quotes, commas and line breaks in *)
(* their fields and download their contacts *)

\* A double quote in the name.
FormQuote == [name |-> <<"A", "\"", "b">>]

\* A comma in the notes and a line break inside the address.
FormComma ==
    [name |-> Bo, address |-> <<"1", "\n", "2">>, notes |-> <<"a", ",", "b">>]

ExportForms == {FormBo, FormQuote, FormComma}

InitExport ==
    /\ version = 2
    /\ db = CategoriesStart.db
    /\ session = CategoriesStart.session
    /\ running = [c \in Clients |-> Idle]
    /\ handles = NoHandles

ExportAdd ==
    \E c \in Clients, f \in ExportForms :
        /\ db.seq.contacts < MaxExportContacts
        /\ Respond(c, add(db, session[c], f))

ExportDownload ==
    \E c \in Clients : Respond(c, export_contacts(db, session[c]))

NextExport == ExportAdd \/ ExportDownload

SpecExport == InitExport /\ [][NextExport]_vars

----------------------------------------------------------------------------
(* Database failures: two users add and delete contacts and add *)
(* categories, and any request may find the database failing *)

InitFaults ==
    /\ version = 2
    /\ db = CategoriesStart.db
    /\ session = CategoriesStart.session
    /\ running = [c \in Clients |-> Idle]
    /\ handles = NoHandles

FailRegister ==
    \E c \in Clients, r \in Submissions(CredentialForms) :
        Respond(c, register_db_error(db, session[c], r.method, r.form))

FailLogin ==
    \E c \in Clients, r \in Submissions(CredentialForms) :
        Respond(c, login_db_error(db, session[c], r.method, r.form))

FailIndex ==
    \E c \in Clients, a \in IndexArgs :
        Respond(c, index_db_error(db, session[c], a))

FailAdd ==
    \E c \in Clients, f \in ContactForms :
        Respond(c, add_db_error(db, session[c], f))

FailEdit ==
    \E c \in Clients, id \in ContactIds, r \in Submissions(ContactForms) :
        Respond(c, edit_db_error(db, session[c], id, r.method, r.form))

FailDelete ==
    \E c \in Clients, id \in ContactIds :
        Respond(c, delete_db_error(db, session[c], id))

FailCategories ==
    \E c \in Clients : Respond(c, categories_db_error(db, session[c]))

FailAddCategory ==
    \E c \in Clients, f \in CategoryForms :
        Respond(c, add_category_db_error(db, session[c], f))

FailDeleteCategory ==
    \E c \in Clients, id \in CategoryIds(db) :
        Respond(c, delete_category_db_error(db, session[c], id))

FailExport ==
    \E c \in Clients : Respond(c, export_contacts_db_error(db, session[c]))

NextFaults ==
    \/ CatAdd
    \/ CatDelete
    \/ CatAddCategory
    \/ Logout
    \/ Login
    \/ FailRegister
    \/ FailLogin
    \/ FailIndex
    \/ FailAdd
    \/ FailEdit
    \/ FailDelete
    \/ FailCategories
    \/ FailAddCategory
    \/ FailDeleteCategory
    \/ FailExport

SpecFaults == InitFaults /\ [][NextFaults]_vars

----------------------------------------------------------------------------
(* Requests statement by statement: alice uses two browsers, and the *)
(* statements of her add, edit, delete_category and login requests *)
(* interleave.  A write statement takes the write lock of the database *)
(* file and holds it until its connection commits or rolls back; what it *)
(* wrote is seen by the other connection from the commit on. *)

MaxRequestContacts == 2

MaxUnclosed == 1

RequestsStart ==
    LET alice == [username |-> Alice, password |-> Secret1]
        d1 == register(init_db(2), NoSession, "POST", alice).db
        sa == login(d1, NoSession, "POST", alice).session
        d2 == add_category(d1, sa, [name |-> Gym]).db
    IN  [db |-> d2, session |-> [c \in Clients |-> sa]]

RequestForms == {FormInGym, FormBo, FormBadPhone}

\* The categories alice asks to delete: Gym and a default one.
RequestCategoryIds ==
    {g.id : g \in {h \in RequestsStart.db.categories : h.name \in {Gym, Work}}}

InitRequests ==
    /\ version = 2
    /\ db = RequestsStart.db
    /\ session = RequestsStart.session
    /\ running = [c \in Clients |-> Idle]
    /\ handles = NoHandles

\* Another connection holds the write lock.
Locked(c) == \E o \in Clients \ {c} : running[o].pc = "commit"

\* The handler of c goes on at statement pc.
Goto(c, pc) ==
    /\ running' = [running EXCEPT ![c].pc = pc]
    /\ UNCHANGED <<version, db, session, handles>>

\* The handler of c has its response and leaves the with block.
Leave(c, resp) ==
    /\ running' = [running EXCEPT ![c].pc = "return", ![c].resp = resp]
    /\ UNCHANGED <<version, db, session, handles>>

\* A write statement of c has run inside its transaction: d is the database
\* as the commit will leave it and resp what the handler answers after it.
Written(c, d, resp) ==
    /\ ~Locked(c)
    /\ running' = [running EXCEPT ![c].pc = "commit", ![c].pending = d,
                                  ![c].resp = resp]
    /\ UNCHANGED <<version, db, session, handles>>

\* get_db_connection at the head of the with block of a route.
Connect(c, route, pc, id, method, form) ==
    /\ running[c].pc = "idle"
    /\ LoggedIn(session[c]) \/ route = "login"
    /\ handles.unreferenced + handles.traceback <= MaxUnclosed
    /\ running' = [running EXCEPT ![c] =
           [Idle EXCEPT !.route = route, !.pc = pc, !.id = id,
                        !.method = method, !.form = form]]
    /\ UNCHANGED <<version, db, session, handles>>

At(c, route, pc) == running[c].route = route /\ running[c].pc = pc

StartDeleteCategory ==
    \E c \in Clients, id \in RequestCategoryIds :
        Connect(c, "delete_category", "in_use", id, "GET", NoForm)

\* SELECT COUNT(*) ... and the return when the category is in use.
DeleteCategoryInUse ==
    \E c \in Clients :
        /\ At(c, "delete_category", "in_use")
        /\ IF InUse(db, running[c].id, session[c].user_id) > 0
           THEN Leave(c, redirect("categories",
                    "Cannot delete category that is in use by contacts"))
           ELSE Goto(c, "category")

\* SELECT name ... and the return for a default category.
DeleteCategoryName ==
    \E c \in Clients :
        /\ At(c, "delete_category", "category")
        /\ IF \E g \in OwnCategory(db, running[c].id, session[c].user_id) :
                    g.name \in {General, Family, Work, Friends}
           THEN Leave(c, redirect("categories", "Cannot delete default categories"))
           ELSE Goto(c, "delete")

\* DELETE FROM categories ... and the test of rowcount.
DeleteCategoryDelete ==
    \E c \in Clients :
        LET found == OwnCategory(db, running[c].id, session[c].user_id)
        IN  /\ At(c, "delete_category", "delete")
            /\ IF found = {}
               THEN /\ ~Locked(c)
                    /\ Leave(c, redirect("categories", "Category not found"))
               ELSE Written(c, [db EXCEPT !.categories = @ \ found],
                        redirect("categories", "Category deleted successfully"))

\* add validates the form before it opens a connection.
StartAdd ==
    \E c \in Clients, f \in RequestForms :
        /\ db.seq.contacts < MaxRequestContacts
        /\ ValidationError(Strip(Get(f, "name", <<>>)),
                           Strip(Get(f, "phone", <<>>)),
                           Strip(Get(f, "email", <<>>))) = ""
        /\ Connect(c, "add", "insert", 0, "POST", f)

\* INSERT INTO contacts ...
AddInsert ==
    \E c \in Clients :
        /\ At(c, "add", "insert")
        /\ LET out == add(db, session[c], running[c].form)
           IN  Written(c, out.db, out.resp)

StartEdit ==
    \E c \in Clients, id \in 1..MaxRequestContacts,
       r \in Submissions({FormInGym}) :
        Connect(c, "edit", "contact", id, r.method, r.form)

\* SELECT * FROM contacts WHERE id = ? AND user_id = ? and the return when
\* there is no such row.
EditContact ==
    \E c \in Clients :
        /\ At(c, "edit", "contact")
        /\ IF OwnContact(db, running[c].id, session[c].user_id) = {}
           THEN Leave(c, redirect("index", "Contact not found"))
           ELSE Goto(c, "categories")

\* SELECT * FROM categories ..., the validation of a posted form, and the
\* UPDATE.  The row shown in the form is the one read by the first SELECT,
\* which no statement of the other requests here removes.
EditUpdate ==
    \E c \in Clients :
        LET out == edit(db, session[c], running[c].id, running[c].method,
                        running[c].form)
        IN  /\ At(c, "edit", "categories")
            /\ OwnContact(db, running[c].id, session[c].user_id) # {}
            /\ IF out.db = db
               THEN Leave(c, out.resp)
               ELSE Written(c, out.db, out.resp)

\* conn.commit(): what the connection wrote is in the database.
Commit ==
    \E c \in Clients :
        /\ running[c].pc = "commit"
        /\ db' = running[c].pending
        /\ running' = [running EXCEPT ![c].pc = "return", ![c].pending = EmptyDb]
        /\ UNCHANGED <<version, session, handles>>

StartLogin ==
    \E c \in Clients :
        Connect(c, "login", "user", 0, "POST",
                [username |-> Alice, password |-> Secret1])

\* SELECT * FROM users WHERE username = ? and the rest of login.
LoginUser ==
    \E c \in Clients :
        LET out == login(db, session[c], "POST", running[c].form)
        IN  /\ At(c, "login", "user")
            /\ session' = [session EXCEPT ![c] = out.session]
            /\ running' = [running EXCEPT ![c].pc = "return", ![c].resp = out.resp]
            /\ UNCHANGED <<version, db, handles>>

\* What the handler of a request answers when a statement raises
\* sqlite3.OperationalError.
db_error(d, s, r) ==
    IF r.route = "login" THEN login_db_error(d, s, r.method, r.form).resp
    ELSE IF r.route = "add" THEN add_db_error(d, s, r.form).resp
    ELSE IF r.route = "edit" THEN edit_db_error(d, s, r.id, r.method, r.form).resp
    ELSE delete_category_db_error(d, s, r.id).resp

\* A statement of the request of c raises sqlite3.OperationalError (the
\* database is locked for longer than the timeout, the disk is full): the
\* with block rolls back and the exception goes to the except clause that
\* matches it, if there is one.
Raise ==
    \E c \in Clients :
        /\ running[c].pc \notin {"idle", "return"}
        /\ running' = [running EXCEPT ![c].pc = "return", ![c].pending = EmptyDb,
               ![c].resp = db_error(db, session[c], running[c])]
        /\ UNCHANGED <<version, db, session, handles>>

\* The handler returns or the exception leaves it.  No handler calls
\* conn.close(), and the with block of a sqlite3 connection commits or rolls
\* back and leaves the connection open.  The connection is closed when the
\* object is finalized: as the frame of the handler is released, or later,
\* when the collector runs.  The traceback of an exception that left the
\* handler holds the frame, and the debugger of app.run(debug=True) holds
\* the traceback.
Return ==
    \E c \in Clients, finalized \in BOOLEAN :
        /\ running[c].pc = "return"
        /\ running' = [running EXCEPT ![c] = Idle]
        /\ handles' =
              IF running[c].resp.kind = "exception"
              THEN [handles EXCEPT !.traceback = @ + 1]
              ELSE IF finalized THEN handles
              ELSE [handles EXCEPT !.unreferenced = @ + 1]
        /\ UNCHANGED <<version, db, session>>

\* The collector finalizes a connection that nothing references.
Finalize ==
    /\ handles.unreferenced > 0
    /\ handles' = [handles EXCEPT !.unreferenced = @ - 1]
    /\ UNCHANGED <<version, db, session, running>>

NextRequests ==
    \/ StartDeleteCategory
    \/ DeleteCategoryInUse
    \/ DeleteCategoryName
    \/ DeleteCategoryDelete
    \/ StartAdd
    \/ AddInsert
    \/ StartEdit
    \/ EditContact
    \/ EditUpdate
    \/ Commit
    \/ StartLogin
    \/ LoginUser
    \/ Raise
    \/ Return
    \/ Finalize

SpecRequests == InitRequests /\ [][NextRequests]_vars

----------------------------------------------------------------------------
(* Vocabulary of the properties *)

\* Query string and form with no keys.
NoArgs == [k \in {} |-> <<>>]

\* y is x without its leading and trailing whitespace.
IsTrimOf(y, x) ==
    \E i \in 1..(Len(x) + 1) : \E j \in (i - 1)..Len(x) :
        /\ y = SubSeq(x, i, j)
        /\ \A k \in 1..(i - 1) : x[k] \in Whitespace
        /\ \A k \in (j + 1)..Len(x) : x[k] \in Whitespace
        /\ y # <<>> => y[1] \notin Whitespace /\ y[Len(y)] \notin Whitespace

\* x without its leading and trailing whitespace.
Trimmed(x) ==
    CHOOSE y \in {SubSeq(x, i, j) : i \in 1..(Len(x) + 1), j \in 0..Len(x)} :
        IsTrimOf(y, x)

\* What every protected route of the running version returns to session s,
\* over all the inputs requests are drawn from.
ProtectedOutputs(d, s) ==
    IF version = 2
    THEN {index(d, s, a) : a \in IndexArgs}
         \cup {add(d, s, f) : f \in ContactForms}
         \cup {edit(d, s, id, r.method, r.form) :
                  id \in ContactIds, r \in Submissions(ContactForms)}
         \cup {delete(d, s, id) : id \in ContactIds}
         \cup {categories(d, s)}
         \cup {add_category(d, s, f) : f \in CategoryForms}
         \cup {delete_category(d, s, id) : id \in CategoryIds(d)}
         \cup {export_contacts(d, s)}
    ELSE {v1_index(d, s, a) : a \in IndexArgs}
         \cup {v1_add(d, s, f) : f \in ContactForms}
         \cup {v1_edit(d, s, id, r.method, r.form) :
                  id \in ContactIds, r \in Submissions(ContactForms)}
         \cup {v1_delete(d, s, id) : id \in ContactIds}

\* What register returns, over all inputs.
RegisterOutputs(d, s) ==
    IF version = 2
    THEN {register(d, s, r.method, r.form) : r \in Submissions(CredentialForms)}
    ELSE {v1_register(d, s, r.method, r.form) :
             r \in Submissions(CredentialForms)}

LoginOf(d, s, method, form) ==
    IF version = 2 THEN login(d, s, method, form)
    ELSE v1_login(d, s, method, form)

LogoutOf(d, s) == IF version = 2 THEN logout(d, s) ELSE v1_logout(d, s)

\* The two ways a request is sent to login.
ToLogin(out) ==
    /\ out.resp.kind = "redirect"
    /\ out.resp.target = "login"
    /\ out.resp.data = NoData

----------------------------------------------------------------------------
(* C1 *)

\* C1: in version2, whenever a contact c belongs to user A and another user
\* B is logged in, a GET or a POST to edit(c.id) and a request to
\* delete(c.id) in the session of B report not-found, carry no data, and
\* leave the database, and so the row of c, as it was.
C1_ForeignContactNotFound ==
    version = 2 =>
        \A b \in Clients : \A c \in db.contacts :
            LoggedIn(session[b]) /\ c.user_id # session[b].user_id =>
                /\ \A r \in Submissions(ContactForms) :
                      LET out == edit(db, session[b], c.id, r.method, r.form)
                      IN  /\ out.resp.kind = "redirect"
                          /\ out.resp.flash = "Contact not found"
                          /\ out.resp.data = NoData
                          /\ out.db = db
                /\ LET out == delete(db, session[b], c.id)
                   IN  /\ out.resp.kind = "redirect"
                       /\ out.resp.flash =
                              "Contact not found or you don't have permission to delete it"
                       /\ out.resp.data = NoData
                       /\ out.db = db

\* A contact of one user exists while another registered user is logged in
\* and owns a contact too; the edit of the foreign contact is answered
\* not-found.
C1_Witness ==
    /\ version = 2
    /\ \E b \in Clients : \E c \in db.contacts : \E own \in db.contacts :
          /\ LoggedIn(session[b])
          /\ c.user_id # session[b].user_id
          /\ own.user_id = session[b].user_id
          /\ edit(db, session[b], c.id, "POST", FormBo).resp.flash =
                 "Contact not found"
          /\ edit(db, session[b], own.id, "GET", NoForm).resp.kind = "render"

----------------------------------------------------------------------------
(* C2 *)

\* C2: in version2, in every reachable state and for every logged-in
\* session, each contact index returns (for every search, category filter
\* and page) is a row of the contacts table owned by the session user, and
\* export produces one row for each contact the session user owns, each the
\* six columns of such a contact, and no row more.
C2_ListingsOnlyOwnContacts ==
    version = 2 =>
        \A a \in Clients :
            LoggedIn(session[a]) =>
                LET uid == session[a].user_id
                    own == {c \in db.contacts : c.user_id = uid}
                    exported == export_contacts(db, session[a]).resp.data.contacts
                IN  /\ \A args \in IndexArgs :
                          LET listed == index(db, session[a], args).resp.data.contacts
                          IN  \A i \in 1..Len(listed) : listed[i] \in own
                    /\ Len(exported) = Cardinality(own)
                    /\ \A i \in 1..Len(exported) :
                          \E c \in own : exported[i] = ExportColumns(c)

\* Two users each own a contact of the same name; one of them is logged in
\* and the unfiltered listing shows that user one contact.
C2_Witness ==
    /\ version = 2
    /\ \E a \in Clients : \E mine \in db.contacts : \E other \in db.contacts :
          /\ LoggedIn(session[a])
          /\ mine.user_id = session[a].user_id
          /\ other.user_id # session[a].user_id
          /\ mine.name = other.name
          /\ index(db, session[a], NoArgs).resp.data.contacts = <<mine>>
          /\ Len(export_contacts(db, session[a]).resp.data.contacts) = 1

----------------------------------------------------------------------------
(* C3 *)

----------------------------------------------------------------------------
(* C4 *)

\* The users rows a login form names: the row of its trimmed username, when
\* the hash of that row was made from its trimmed password.
Authenticates(d, form) ==
    {u \in d.users :
        /\ u.username = Trimmed(form.username)
        /\ u.password_hash = generate_password_hash(Trimmed(form.password))}

\* C4: in both versions a session comes to hold a user_id only by a login
\* POST whose trimmed username is that of a users row and whose trimmed
\* password is the one that row's hash was made from, and it then holds the
\* id and the username of that row; every session that holds a user_id
\* holds the id and username of one users row; a login POST with an unknown
\* username or a wrong password flashes "Invalid credentials" and leaves the
\* session as it was; a GET of login, register, logout and every other
\* route never put a user_id into a session.
C4_SessionOnlyByValidLogin ==
    \A c \in Clients :
        LET s == session[c]
        IN  /\ LoggedIn(s) =>
                  \E u \in db.users :
                      s = [user_id |-> u.id, username |-> u.username]
            /\ \A f \in CredentialForms :
                  LET out == LoginOf(db, s, "POST", f)
                      who == Authenticates(db, f)
                  IN  IF who # {}
                      THEN \E u \in who :
                               out.session =
                                   [user_id |-> u.id, username |-> u.username]
                      ELSE /\ out.session = s
                           /\ out.resp.flash = "Invalid credentials"
            /\ LoginOf(db, s, "GET", NoForm).session = s
            /\ \A out \in ProtectedOutputs(db, s) \cup RegisterOutputs(db, s) :
                  out.session = s
            /\ ~LoggedIn(LogoutOf(db, s).session)

\* A registered user is logged in in one browser; in another browser, which
\* holds no user_id, a login with that username and a wrong password is
\* refused and the same login with the right password would be accepted.
C4_Witness ==
    \E c \in Clients : \E b \in Clients : \E u \in db.users :
        /\ session[c] = [user_id |-> u.id, username |-> u.username]
        /\ ~LoggedIn(session[b])
        /\ \E f \in CredentialForms :
              /\ u.username = Trimmed(f.username)
              /\ Authenticates(db, f) = {}
              /\ LoginOf(db, session[b], "POST", f).resp.flash =
                     "Invalid credentials"
        /\ \E f \in CredentialForms :
              /\ Authenticates(db, f) = {u}
              /\ LoginOf(db, session[b], "POST", f).session = session[c]

----------------------------------------------------------------------------
(* C5 *)

----------------------------------------------------------------------------
(* C6 *)

\* C6: in version2 a registration whose trimmed username has fewer than 3
\* characters, whose trimmed password has fewer than 6, or whose trimmed
\* username is that of a users row, leaves the users table and the
\* categories table as they were; and in every reachable state no two users
\* rows have the same username.
C6_RejectedRegistrationAddsNothing ==
    version = 2 =>
        /\ \A u1 \in db.users : \A u2 \in db.users :
              u1.username = u2.username => u1 = u2
        /\ \A c \in Clients : \A f \in CredentialForms :
              (\/ Len(Trimmed(f.username)) < 3
               \/ Len(Trimmed(f.password)) < 6
               \/ \E u \in db.users : u.username = Trimmed(f.username))
              => LET out == register(db, session[c], "POST", f)
                 IN  /\ out.db.users = db.users
                     /\ out.db.categories = db.categories
                     /\ out.resp.kind = "render"
                     /\ out.resp.flash # ""

\* Two users are registered; a third registration under the name of one of
\* them, written with blanks around it, is refused as a duplicate, and one
\* with a username too short once trimmed is refused for its length.
C6_Witness ==
    /\ version = 2
    /\ Cardinality(db.users) = 2
    /\ \E c \in Clients : \E f \in CredentialForms :
          /\ f.username # Trimmed(f.username)
          /\ register(db, session[c], "POST", f).resp.flash =
                 "Username already exists"
    /\ \E c \in Clients : \E f \in CredentialForms :
          /\ Len(f.username) >= 3
          /\ register(db, session[c], "POST", f).resp.flash =
                 "Username must be at least 3 characters"

----------------------------------------------------------------------------
(* C7 *)

\* The checks of a contact, on the name, phone and email given.
PassesChecks(name, phone, email) ==
    /\ Len(Trimmed(name)) >= 2
    /\ phone = <<>> \/ validate_phone(phone)
    /\ email = <<>> \/ validate_email(email)

\* The checks on a submission are made on its trimmed fields.
FormPasses(f) ==
    PassesChecks(Trimmed(Get(f, "name", <<>>)), Trimmed(Get(f, "phone", <<>>)),
                 Trimmed(Get(f, "email", <<>>)))

\* C7: in version2 every stored contact has a name of at least 2 characters
\* once trimmed, a phone that is empty or passes validate_phone and an email
\* that is empty or passes validate_email; and an add or an edit POST whose
\* fields fail one of these checks leaves the contacts table as it was.
C7_StoredContactsAreValid ==
    version = 2 =>
        /\ \A k \in db.contacts : PassesChecks(k.name, k.phone, k.email)
        /\ \A c \in Clients : \A f \in ContactForms :
              LoggedIn(session[c]) /\ ~FormPasses(f) =>
                  /\ add(db, session[c], f).db.contacts = db.contacts
                  /\ \A id \in ContactIds :
                        edit(db, session[c], id, "POST", f).db.contacts =
                            db.contacts

\* A user owns a contact, and each kind of bad submission (name, phone,
\* email) posted to the edit form of that contact is refused with its own
\* message.
C7_Witness ==
    /\ version = 2
    /\ \E c \in Clients : \E k \in db.contacts :
          /\ LoggedIn(session[c])
          /\ k.user_id = session[c].user_id
          /\ k.phone # <<>> /\ k.email # <<>>
          /\ edit(db, session[c], k.id, "POST", FormShortName).resp.flash =
                 "Name is required and must be at least 2 characters"
          /\ edit(db, session[c], k.id, "POST", FormBadPhone).resp.flash =
                 "Invalid phone number format"
          /\ edit(db, session[c], k.id, "POST", FormBadEmail).resp.flash =
                 "Invalid email format"
          /\ add(db, session[c], FormBadEmail).resp.flash =
                 "Invalid email format"

----------------------------------------------------------------------------
(* C9 *)

\* The value a form gives a field: the trimmed value of its key, or of the
\* default the handler takes when the key is missing.
Given(f, key) ==
    Trimmed(Get(f, key, IF key = "category" THEN General ELSE <<>>))

\* Row k has the fields of form f, trimmed.
HasFieldsOf(k, f) ==
    /\ k.name = Given(f, "name")
    /\ k.phone = Given(f, "phone")
    /\ k.email = Given(f, "email")
    /\ k.address = Given(f, "address")
    /\ k.notes = Given(f, "notes")
    /\ k.category = Given(f, "category")

\* C9: in version2, an add that succeeds makes exactly one new contact, with
\* a new id, owned by the session user; the edit form of that id, asked by
\* the owner, shows a contact whose six fields are the submitted ones with
\* leading and trailing whitespace removed, and the owner's unfiltered
\* listing shows the same row when it fits on the first page.
C9_AddThenReadBack ==
    version = 2 =>
        \A c \in Clients : \A f \in ContactForms :
            LET s == session[c]
                out == add(db, s, f)
                new == out.db.contacts \ db.contacts
            IN  LoggedIn(s) /\ out.resp.flash = "Contact added successfully" =>
                    /\ Cardinality(new) = 1
                    /\ out.db.contacts = db.contacts \cup new
                    /\ \A k \in new :
                          LET shown == edit(out.db, s, k.id, "GET", NoForm)
                              listed == index(out.db, s, NoArgs).resp.data.contacts
                          IN  /\ k.user_id = s.user_id
                              /\ \A o \in db.contacts : o.id # k.id
                              /\ shown.resp.kind = "render"
                              /\ shown.resp.data.contact = k
                              /\ HasFieldsOf(shown.resp.data.contact, f)
                              /\ Cardinality({o \in out.db.contacts :
                                     o.user_id = s.user_id}) <= per_page
                                 => \E i \in 1..Len(listed) :
                                        /\ listed[i].id = k.id
                                        /\ HasFieldsOf(listed[i], f)

\* A stored contact whose six fields are those of the form whose every
\* value has whitespace to trim, owned by a logged-in user to whom the
\* edit form shows it; adding that form again would succeed.
C9_Witness ==
    /\ version = 2
    /\ \A key \in DOMAIN FormSam : FormSam[key] # Trimmed(FormSam[key])
    /\ \E c \in Clients : \E k \in db.contacts :
          /\ LoggedIn(session[c])
          /\ k.user_id = session[c].user_id
          /\ HasFieldsOf(k, FormSam)
          /\ edit(db, session[c], k.id, "GET", NoForm).resp.data.contact = k
          /\ add(db, session[c], FormSam).resp.flash =
                 "Contact added successfully"

----------------------------------------------------------------------------
(* C10 *)

NotFoundOnDelete ==
    redirect("index",
             "Contact not found or you don't have permission to delete it")

\* C10: in version2, a delete by a logged-in user of an id that is no
\* contact of that user is answered with the not-found message, not with
\* success, and leaves the database as it was; the same delete sent again
\* gets the same answer and again changes nothing.
C10_DeleteMissingIsNotFound ==
    version = 2 =>
        \A c \in Clients : \A id \in ContactIds :
            LET s == session[c]
                first == delete(db, s, id)
                second == delete(first.db, first.session, id)
            IN  /\ LoggedIn(s)
                /\ ~\E k \in db.contacts : k.id = id /\ k.user_id = s.user_id
                => /\ first.resp = NotFoundOnDelete
                   /\ first.db = db
                   /\ first.session = s
                   /\ second.resp = NotFoundOnDelete
                   /\ second.db = db

\* A logged-in user has deleted a contact: the id was given out and is in
\* no row now, and deleting it again is answered not-found.
C10_Witness ==
    /\ version = 2
    /\ \E c \in Clients : \E id \in 1..db.seq.contacts :
          /\ LoggedIn(session[c])
          /\ \A k \in db.contacts : k.id # id
          /\ db.contacts # {}
          /\ delete(db, session[c], id).resp = NotFoundOnDelete

----------------------------------------------------------------------------
(* C8 *)

\* s occurs in text, letters compared without case.
ContainsNoCase(text, s) ==
    \E i \in 1..(Len(text) - Len(s) + 1) :
        \A k \in 1..Len(s) : Lower(text[i + k - 1]) = Lower(s[k])

\* The contacts of a user that filter f asks for.
Matching(d, user_id, f) ==
    {c \in d.contacts :
        /\ c.user_id = user_id
        /\ ("search" \in DOMAIN f /\ Trimmed(f.search) # <<>>) =>
              \E field \in {c.name, c.phone, c.email, c.notes} :
                  ContainsNoCase(field, Trimmed(f.search))
        /\ ("category" \in DOMAIN f /\ Trimmed(f.category) # <<>>) =>
              c.category = Trimmed(f.category)}

\* The contacts index shows for filter f on page p.
PageOf(d, s, f, p) == index(d, s, WithPage(f, p)).resp.data.contacts

\* The pages 1..n for filter f, one after the other.
RECURSIVE PagesJoined(_, _, _, _)
PagesJoined(d, s, f, n) ==
    IF n = 0 THEN <<>>
    ELSE PagesJoined(d, s, f, n - 1) \o PageOf(d, s, f, n)

\* Ascending order of name.
NameOrdered(page) ==
    \A i \in 1..(Len(page) - 1) : ~TextLess(page[i + 1].name, page[i].name)

\* C8: in version2, for every search and category filter, with total the
\* result of the count query and total_pages the number index hands to the
\* template: total_pages is the ceiling of total / 10; the pages
\* 1..total_pages hold no contact twice, within a page or across pages; each
\* page is in ascending order of name; their lengths add up to total; total
\* is the number of contacts of the session user that match the filters, as
\* the listing query states them and as a substring search without case
\* states them; and every page number above total_pages gives an empty page.
C8_PagesPartitionTheMatches ==
    \A f \in PagingFilters :
        LET s == session["browser1"]
            search == Trimmed(Get(f, "search", <<>>))
            category_filter == Trimmed(Get(f, "category", <<>>))
            total == CountQuery(db, s.user_id, search, category_filter)
            total_pages == index(db, s, WithPage(f, 1)).resp.data.total_pages
            joined == PagesJoined(db, s, f, total_pages)
        IN  /\ total_pages * per_page >= total
            /\ total_pages * per_page < total + per_page
            /\ \A i \in 1..Len(joined) : \A j \in 1..Len(joined) :
                  joined[i].id = joined[j].id => i = j
            /\ \A p \in 1..total_pages : NameOrdered(PageOf(db, s, f, p))
            /\ Len(joined) = total
            /\ total = Cardinality({c \in db.contacts :
                          ListingWhere(c, s.user_id, search, category_filter)})
            /\ total = Cardinality(Matching(db, s.user_id, f))
            /\ \A p \in (total_pages + 1)..MaxPage :
                  PageOf(db, s, f, p) = <<>>

\* The user owns more than ten contacts, of two names, so the unfiltered
\* listing has two pages, the second not empty, and each filter alone
\* selects some but not all of them.
C8_Witness ==
    LET s == session["browser1"]
        all == index(db, s, WithPage(NoArgs, 2)).resp.data
    IN  /\ all.total_pages = 2
        /\ all.contacts # <<>>
        /\ \E f \in PagingFilters : \E g \in PagingFilters :
              /\ Matching(db, s.user_id, f) # {}
              /\ Matching(db, s.user_id, g) # {}
              /\ Matching(db, s.user_id, f) \cap Matching(db, s.user_id, g) = {}
        /\ \E k \in db.contacts : k.user_id # s.user_id

----------------------------------------------------------------------------
(* C11 *)

DefaultNames == {General, Family, Work, Friends}

\* delete_category asked by a logged-in user for the id of a row with a
\* default name reports a refusal and leaves the database as it was.
DefaultDeleteRefused ==
    \A c \in Clients : \A g \in db.categories :
        g.name \in DefaultNames /\ LoggedIn(session[c]) =>
            LET out == delete_category(db, session[c], g.id)
            IN  /\ out.db = db
                /\ out.resp.kind = "redirect"
                /\ out.resp.flash \in
                     {"Cannot delete category that is in use by contacts",
                      "Cannot delete default categories",
                      "Category not found"}
                /\ g.user_id = session[c].user_id =>
                      out.resp.flash # "Category not found"

\* C11: in version2, a category row named General, Family, Work or Friends
\* is still in the table after any request of any browser; and
\* delete_category asked for the id of such a row by a logged-in user
\* reports a refusal (the category is in use, is a default, or is not a
\* category of that user), never a deletion, and leaves the database as it
\* was, whether or not a contact carries that category.
C11_DefaultCategoriesStay ==
    /\ [](version = 2 => DefaultDeleteRefused)
    /\ [][version = 2 =>
            \A g \in db.categories :
                g.name \in DefaultNames => g \in db'.categories]_vars

\* A logged-in user owns a default category that one of their contacts
\* carries and a default category that no contact carries, and is refused
\* the deletion of each for its own reason.
C11_Witness ==
    /\ version = 2
    /\ \E c \in Clients :
          /\ LoggedIn(session[c])
          /\ \E g \in db.categories : \E h \in db.categories :
                /\ g.user_id = session[c].user_id
                /\ h.user_id = session[c].user_id
                /\ delete_category(db, session[c], g.id).resp.flash =
                      "Cannot delete category that is in use by contacts"
                /\ delete_category(db, session[c], h.id).resp.flash =
                      "Cannot delete default categories"

----------------------------------------------------------------------------
(* C12 *)

\* C12: in version2, for a category row g with a name that is not a default
\* name, owned by the user U of a session: delete_category(g.id) in that
\* session leaves the database as it was and reports the category in use
\* while some contact of U carries the name of g, whatever the contacts of
\* other users carry; and when no contact of U carries it, it removes
\* exactly the row g and reports the deletion.
C12_CustomCategoryDeletableWhenUnused ==
    \A c \in Clients : \A g \in db.categories :
        LET s == session[c]
            out == delete_category(db, s, g.id)
        IN  (LoggedIn(s) /\ g.user_id = s.user_id /\ g.name \notin DefaultNames)
            => IF \E k \in db.contacts :
                      k.user_id = s.user_id /\ k.category = g.name
               THEN /\ out.db = db
                    /\ out.resp.flash =
                          "Cannot delete category that is in use by contacts"
               ELSE /\ out.db = [db EXCEPT !.categories = @ \ {g}]
                    /\ g \in db.categories
                    /\ out.resp.flash = "Category deleted successfully"

\* A user owns the category Gym and a contact that is not in it (it was
\* re-categorised, or another one was deleted: two contacts were added in
\* all), while a contact of the other user is in Gym; the category is
\* deleted on request.
C12_Witness ==
    \E c \in Clients : \E g \in db.categories :
        LET s == session[c]
        IN  /\ g.user_id = s.user_id
            /\ g.name = Gym
            /\ db.seq.contacts = 2
            /\ \E k \in db.contacts : k.user_id = s.user_id
            /\ \A k \in db.contacts : k.user_id = s.user_id => k.category # Gym
            /\ \E k \in db.contacts : k.user_id # s.user_id /\ k.category = Gym
            /\ delete_category(db, s, g.id).resp.flash =
                  "Category deleted successfully"

----------------------------------------------------------------------------
(* C13 *)

\* C13: in version2, add_category by a logged-in user with a name that,
\* trimmed, is the name of a category that user owns reports that the
\* category already exists and leaves the database as it was; and no user
\* owns two category rows of the same name.
C13_DuplicateCategoryRejected ==
    /\ \A c \in Clients : \A f \in CategoryForms :
          LET s == session[c]
              out == add_category(db, s, f)
          IN  (/\ LoggedIn(s)
               /\ \E g \in db.categories :
                     g.user_id = s.user_id /\ g.name = Given(f, "name"))
              => /\ out.db = db
                 /\ out.resp.flash = "Category already exists"
    /\ \A g \in db.categories : \A h \in db.categories :
          g.user_id = h.user_id /\ g.name = h.name => g = h

----------------------------------------------------------------------------
(* C14 *)

\* C14: in version2, when a registration succeeds, the categories the new
\* user owns right after it are exactly four, one of each default name.
C14_NewUserOwnsFourCategories ==
    version = 2 =>
        \A c \in Clients : \A f \in CredentialForms :
            LET out == register(db, session[c], "POST", f)
            IN  \A u \in out.db.users \ db.users :
                    LET owned == {g \in out.db.categories : g.user_id = u.id}
                    IN  /\ Cardinality(owned) = 4
                        /\ \A n \in DefaultNames :
                              Cardinality({g \in owned : g.name = n}) = 1

----------------------------------------------------------------------------
(* C15 *)

\* C15: in version2, an edit POST by the owner of a contact whose fields
\* fail validation leaves the database as it was and renders the edit form
\* again with a contact whose fields are the submitted ones (as sent, or
\* trimmed).
C15_FailedEditShowsSubmitted ==
    version = 2 =>
        \A c \in Clients : \A k \in db.contacts : \A f \in ContactForms :
            LET s == session[c]
                out == edit(db, s, k.id, "POST", f)
            IN  (LoggedIn(s) /\ k.user_id = s.user_id /\ ~FormPasses(f))
                => /\ out.db = db
                   /\ out.resp.kind = "render"
                   /\ \A key \in DOMAIN f :
                         out.resp.data.contact[key] \in {f[key], Given(f, key)}

----------------------------------------------------------------------------
(* C16 *)

\* The rows that index shows session s for query string a, as a set.
Shown(d, s, a) ==
    LET rows == index(d, s, a).resp.data.contacts
    IN  {rows[i] : i \in 1..Len(rows)}

\* C16: in version2, for a search term that is not empty once trimmed and
\* no category filter, index shows a logged-in user exactly the contacts of
\* that user in which the trimmed term occurs, letters compared without
\* case, as it is written, in the name, the phone, the email or the notes.
C16_SearchIsLiteralSubstring ==
    \A c \in Clients : \A t \in SearchTerms :
        Trimmed(t) # <<>> =>
            Shown(db, session[c], [search |-> t]) =
                {k \in db.contacts :
                    /\ k.user_id = session[c].user_id
                    /\ \E field \in {k.name, k.phone, k.email, k.notes} :
                          ContainsNoCase(field, Trimmed(t))}

----------------------------------------------------------------------------
(* C17 *)

\* C17: in version2, with a category filter that is not empty once trimmed,
\* index shows a logged-in user, without a search term, exactly the contacts
\* of that user whose stored category is the trimmed filter, character for
\* character; and with a search term as well, exactly those of them that
\* the search term alone also selects.
C17_CategoryFilterExactAndCombined ==
    \A c \in Clients : \A g \in CategoryFilters :
        LET s == session[c]
            inCategory == {k \in db.contacts :
                              k.user_id = s.user_id /\ k.category = Trimmed(g)}
        IN  Trimmed(g) # <<>> =>
               /\ Shown(db, s, [category |-> g]) = inCategory
               /\ \A t \in SearchTerms :
                     Trimmed(t) # <<>> =>
                        Shown(db, s, [search |-> t, category |-> g]) =
                            Shown(db, s, [search |-> t]) \cap inCategory

\* A user owns a contact in Work that a search term selects, one in
\* "work" that the same term selects, and one that the category filter Work
\* selects alone or that the term selects alone; the other user owns a
\* contact in Work too.
C17_Witness ==
    \E c \in Clients : \E t \in SearchTerms :
        LET s == session[c]
            both == Shown(db, s, [search |-> t, category |-> Work])
            bySearch == Shown(db, s, [search |-> t])
            byCategory == Shown(db, s, [category |-> Work])
        IN  /\ both # {}
            /\ bySearch \ both # {}
            /\ \E k \in bySearch : k.category = <<"w", "o", "r", "k">>
            /\ \E k \in db.contacts :
                  k.user_id # s.user_id /\ k.category = Work

----------------------------------------------------------------------------
(* C18 *)

\* C18: in version2, the contact that an add by a logged-in user creates has
\* the category General when the form supplies no category value (no
\* category key, or one that is empty once trimmed), and never has an empty
\* category.
C18_AddNeverStoresEmptyCategory ==
    \A c \in Clients : \A f \in CategorisedForms :
        LET s == session[c]
            out == add(db, s, f)
        IN  LoggedIn(s) =>
               \A k \in out.db.contacts \ db.contacts :
                  /\ ("category" \notin DOMAIN f \/ Trimmed(f.category) = <<>>)
                        => k.category = General
                  /\ k.category # <<>>

----------------------------------------------------------------------------
(* C19 *)

\* validate_phone of the running application.
ValidatePhoneOf(phone) ==
    IF version = 2 THEN validate_phone(phone)
    ELSE IF version = 1 THEN v1_validate_phone(phone)
    ELSE barebone_validate_phone(phone)

\* Every character of text p is in class.
MadeOf(p, class) == \A i \in 1..Len(p) : p[i] \in class

\* C19 as claimed: in each of the three applications validate_phone accepts
\* the empty text, and accepts a text that is not empty exactly when it is
\* made of digits, spaces, -, +, ( and ) only and has 7 to 20 characters; it
\* rejects 12 and accepts +1 (555) 123-4567.
C19_PhoneShapeAsClaimed ==
    /\ \A p \in PhoneTexts :
          ValidatePhoneOf(p) <=>
              \/ p = <<>>
              \/ /\ MadeOf(p, Digits \cup {" ", "-", "+", "(", ")"})
                 /\ Len(p) >= 7
                 /\ Len(p) <= 20
    /\ ~ValidatePhoneOf(TwelveShort)
    /\ ValidatePhoneOf(PlusOne555)

\* C19 amended: validate_phone accepts the empty text, and accepts a text
\* that is not empty exactly when it is made of digits, whitespace (blank,
\* tab, line feed), -, +, ( and ) only and either has between the least
\* length and 20 characters, or has 21 characters of which the last is a
\* line feed; the least length is 7 in version1 and version2 and 10 in
\* barebone.  In each application it rejects 12 and accepts
\* +1 (555) 123-4567.
C19_PhoneShape ==
    LET least == IF version = 0 THEN 10 ELSE 7
    IN  /\ \A p \in PhoneTexts :
              ValidatePhoneOf(p) <=>
                  \/ p = <<>>
                  \/ /\ MadeOf(p, Digits \cup {" ", "\t", "\n", "-", "+", "(", ")"})
                     /\ \/ Len(p) >= least /\ Len(p) <= 20
                        \/ Len(p) = 21 /\ p[21] = "\n"
        /\ ~ValidatePhoneOf(TwelveShort)
        /\ ValidatePhoneOf(PlusOne555)

\* barebone has stored a contact whose phone has a tab in it and the least
\* length it accepts: one character less is rejected, and so is the phone of
\* 21 fives, while 20 fives and a line feed are accepted.
C19_Witness ==
    /\ version = 0
    /\ \E k \in db.contacts :
          /\ \E i \in 1..Len(k.phone) : k.phone[i] = "\t"
          /\ Len(k.phone) = 10
          /\ ~ValidatePhoneOf(SubSeq(k.phone, 1, 9))
    /\ ~ValidatePhoneOf([i \in 1..21 |-> "5"])
    /\ ValidatePhoneOf([i \in 1..21 |-> IF i = 21 THEN "\n" ELSE "5"])

----------------------------------------------------------------------------
(* C20 *)

\* A CSV reader: fields are separated by commas and records by line feeds;
\* a field that starts with a double quote runs to the next double quote
\* that is not doubled, commas and line feeds included, and a doubled double
\* quote inside it stands for one.  What follows the closing quote, up to
\* the next comma or line feed, is added to the field as it is.

\* The least number of a set of numbers that is not empty.
Least(S) == CHOOSE k \in S : \A m \in S : k <= m

\* How many double quotes text has from place lo to place hi.
QuotesIn(text, lo, hi) ==
    Cardinality({k \in lo..hi : text[k] = "\""})

\* The place of the quote that closes the field opened by the quote at place
\* i, or one past the end of the text when nothing closes it.
ClosingQuote(text, i) ==
    Least({j \in (i + 1)..Len(text) :
              /\ text[j] = "\""
              /\ j = Len(text) \/ text[j + 1] # "\""
              /\ QuotesIn(text, i + 1, j) % 2 = 1}
          \cup {Len(text) + 1})

\* The place of the first comma or line feed from place i on, or one past
\* the end of the text.
FieldEnd(text, i) ==
    Least({k \in i..Len(text) : text[k] \in {",", "\n"}} \cup {Len(text) + 1})

\* The text between an opening and a closing quote with each doubled double
\* quote read as one.
RECURSIVE Undoubled(_)
Undoubled(inner) ==
    IF inner = <<>> THEN <<>>
    ELSE IF Len(inner) >= 2 /\ inner[1] = "\"" /\ inner[2] = "\""
    THEN <<"\"">> \o Undoubled(SubSeq(inner, 3, Len(inner)))
    ELSE <<Head(inner)>> \o Undoubled(Tail(inner))

\* i is the place where a field starts, record the fields of the record
\* being read, read the records read so far.
RECURSIVE ReadCsv(_, _, _, _)
ReadCsv(text, i, record, read) ==
    IF i > Len(text)
    THEN IF record = <<>> THEN read ELSE Append(read, Append(record, <<>>))
    ELSE LET isQuoted == text[i] = "\""
             close == ClosingQuote(text, i)
             end == IF isQuoted /\ close <= Len(text)
                    THEN FieldEnd(text, close + 1)
                    ELSE IF isQuoted THEN Len(text) + 1
                    ELSE FieldEnd(text, i)
             field == IF isQuoted
                      THEN Undoubled(SubSeq(text, i + 1, close - 1))
                               \o SubSeq(text, close + 1, end - 1)
                      ELSE SubSeq(text, i, end - 1)
         IN  IF end > Len(text)
             THEN Append(read, Append(record, field))
             ELSE IF text[end] = ","
             THEN ReadCsv(text, end + 1, Append(record, field), read)
             ELSE ReadCsv(text, end + 1, <<>>,
                          Append(read, Append(record, field)))

ParseCsv(text) == ReadCsv(text, 1, <<>>, <<>>)

\* The six exported fields of a contact, in the order of the columns.
FieldsOf(k) == <<k.name, k.phone, k.email, k.address, k.notes, k.category>>

HeaderFields ==
    << <<"N", "a", "m", "e">>, <<"P", "h", "o", "n", "e">>,
       <<"E", "m", "a", "i", "l">>, <<"A", "d", "d", "r", "e", "s", "s">>,
       <<"N", "o", "t", "e", "s">>,
       <<"C", "a", "t", "e", "g", "o", "r", "y">> >>

\* C20: in version2, the document export gives a logged-in user, read as
\* CSV, is the header record followed by one record for each contact of
\* that user, in order of name, and the record of a contact has six fields
\* that are the name, phone, email, address, notes and category of the
\* contact, character for character.
C20_ExportReadsBack ==
    \A c \in Clients :
        LET s == session[c]
            read == ParseCsv(export_contacts(db, s).resp.data.csv_content)
            own == OrderByName({k \in db.contacts : k.user_id = s.user_id})
        IN  LoggedIn(s) =>
               /\ Len(read) = 1 + Len(own)
               /\ read[1] = HeaderFields
               /\ \A i \in 1..Len(own) : read[i + 1] = FieldsOf(own[i])

----------------------------------------------------------------------------
(* C21 *)

\* Ids that are in no row of contacts.
MissingIds == {id \in ContactIds : \A k \in db.contacts : k.id # id}

\* C21: in version2, for a logged-in user, a contact k of another user and
\* an id that no contact has: a GET or a POST to edit and a request to
\* delete return for the id of k what they return for the missing id, the
\* same response, the same session and the same database, which is the
\* database as it was.
C21_ForeignAndMissingAlike ==
    version = 2 =>
        \A b \in Clients : \A k \in db.contacts : \A id \in MissingIds :
            LET s == session[b]
            IN  (LoggedIn(s) /\ k.user_id # s.user_id) =>
                   /\ \A r \in Submissions(ContactForms) :
                         /\ edit(db, s, k.id, r.method, r.form) =
                               edit(db, s, id, r.method, r.form)
                         /\ edit(db, s, k.id, r.method, r.form).db = db
                   /\ delete(db, s, k.id) = delete(db, s, id)
                   /\ delete(db, s, k.id).db = db

\* A logged-in user asks for a contact of another user and for an id that
\* was given out and deleted since, and is told twice that there is no such
\* contact.
C21_Witness ==
    /\ version = 2
    /\ \E b \in Clients : \E k \in db.contacts : \E id \in MissingIds :
          /\ LoggedIn(session[b])
          /\ k.user_id # session[b].user_id
          /\ id <= db.seq.contacts
          /\ edit(db, session[b], id, "GET", NoForm).resp.flash =
                "Contact not found"
          /\ edit(db, session[b], k.id, "GET", NoForm).resp.flash =
                "Contact not found"

----------------------------------------------------------------------------
(* C22 *)

\* C22: in version2, the category of every contact is the name of a
\* category row of the user who owns the contact.
C22_ContactCategoryIsOwned ==
    version = 2 =>
        \A k \in db.contacts : \E g \in db.categories :
            g.user_id = k.user_id /\ g.name = k.category

----------------------------------------------------------------------------
(* C23 *)

\* The response is a redirect or a rendered page and flashes a message.
Recovered(out) ==
    /\ out.resp.kind \in {"redirect", "render"}
    /\ out.resp.flash # ""

\* C23: in version2, when the database fails in a request that uses it, the
\* handler answers with a redirect or a rendered page and a flashed message,
\* and the database is as it was: register and login for a POST that passes
\* the length checks, add and add_category for a form that passes
\* validation, and every other protected route for every request of a
\* logged-in user.
C23_DatabaseFailuresRecovered ==
    \A c \in Clients :
        LET s == session[c]
        IN  /\ \A f \in CredentialForms :
                  /\ (Len(Trimmed(f.username)) >= 3 /\ Len(Trimmed(f.password)) >= 6)
                        => Recovered(register_db_error(db, s, "POST", f))
                  /\ Recovered(login_db_error(db, s, "POST", f))
            /\ LoggedIn(s) =>
                  /\ \A a \in IndexArgs : Recovered(index_db_error(db, s, a))
                  /\ \A f \in ContactForms :
                        FormPasses(f) => Recovered(add_db_error(db, s, f))
                  /\ \A id \in ContactIds : \A r \in Submissions(ContactForms) :
                        Recovered(edit_db_error(db, s, id, r.method, r.form))
                  /\ \A id \in ContactIds : Recovered(delete_db_error(db, s, id))
                  /\ Recovered(categories_db_error(db, s))
                  /\ \A f \in CategoryForms :
                        Trimmed(Get(f, "name", <<>>)) # <<>> =>
                            Recovered(add_category_db_error(db, s, f))
                  /\ \A id \in CategoryIds(db) :
                        Recovered(delete_category_db_error(db, s, id))
                  /\ Recovered(export_contacts_db_error(db, s))

----------------------------------------------------------------------------
(* C24 *)

\* C24: every connection a handler obtains from get_db_connection is closed
\* by the time the handler returns, on every path, so that no connection is
\* open whenever no request is being handled.
C24_NoHandleOutsideRequests ==
    (\A c \in Clients : running[c].pc = "idle") =>
        handles.unreferenced + handles.traceback = 0

----------------------------------------------------------------------------
(* C25 *)

\* C25: in version2, when the statements of a delete_category request of a
\* user interleave with those of an add or edit request of the same user,
\* no category row is deleted while, as the DELETE takes effect, a contact
\* of the user carries the name of the category: the check for contacts and
\* the delete behave as one atomic step.
C25_DeleteCategoryAtomic ==
    [][\A g \in db.categories :
          g \notin db'.categories =>
              ~\E k \in db.contacts :
                  k.user_id = g.user_id /\ k.category = g.name]_vars

====
